---- MODULE Spec2Model ----
(***************************************************************************)
(* Reminder subsystem of MCP_tools: the durable ReminderStore              *)
(* (mcp_tools_tools/reminders/store.py) and the polling ReminderScheduler  *)
(* (mcp_tools_tools/reminders/scheduler.py).                               *)
(*                                                                         *)
(* Strings on which the code works character by character (ids, cancel     *)
(* keys, sourceMessageId, text) are sequences of one-character strings;    *)
(* strings that are only compared (user ids, group ids, statuses, error    *)
(* texts) are TLA+ strings.  Times are epoch milliseconds.                 *)
(***************************************************************************)
EXTENDS Integers, Sequences, FiniteSets, TLC

(* ------------------------------------------------------------------ *)
(* Program constants                                                   *)
(* ------------------------------------------------------------------ *)
\* stale_ms = 2 * 60_000, for claims (claim_due) and send locks alike
StaleMs == 120000
\* mark_failed: nextAttemptAtMs = now + 10_000
BackoffMs == 10000
\* ReminderScheduler.run: time.sleep(1.0) between ticks
TickMs == 1000
\* ReminderScheduler._tick: claim_due(now, 10)
TickLimit == 10
SendTimeoutMs == 15000

(* ------------------------------------------------------------------ *)
(* Bounds of the model                                                 *)
(* ------------------------------------------------------------------ *)
\* length of an id; stands for the 36 characters of str(uuid.uuid4())
IdLen == 2
\* records the collection may hold
MaxRecords == 2
\* times the clock advances in one behaviour
MaxAdvances == 2
\* failed attempts recorded on one reminder
MaxAttempts == 1
MaxCrashes == 1
\* clock value of the initial state (any positive epoch time)
StartMs == 5000

\* Python's None, and a key missing from a record's dict (r.get(k) is None)
Absent == 0 - 1
None == "None"
NoneSeq == <<"None">>

\* x or 0 / x or "" as the code writes it before int() / str()
IntOr0(x) == IF x = Absent THEN 0 ELSE x
StrOrEmpty(x) == IF x = None THEN "" ELSE x
SeqOrEmpty(x) == IF x = NoneSeq THEN <<>> ELSE x

(* ------------------------------------------------------------------ *)
(* String helpers                                                      *)
(* ------------------------------------------------------------------ *)
\* str.strip(): drop leading and trailing white space
RECURSIVE LStrip(_)
LStrip(s) == IF s # <<>> /\ Head(s) = " " THEN LStrip(Tail(s)) ELSE s
RECURSIVE RStrip(_)
RStrip(s) ==
    IF s # <<>> /\ s[Len(s)] = " " THEN RStrip(SubSeq(s, 1, Len(s) - 1)) ELSE s
Strip(s) == RStrip(LStrip(s))

\* str.startswith
StartsWith(s, p) == Len(p) <= Len(s) /\ SubSeq(s, 1, Len(p)) = p

IdChars == {"a", "b"}
\* the values str(uuid.uuid4()) may return
AllIds == [1..IdLen -> IdChars]

Statuses == {"pending", "sending", "sent", "canceled"}
Live == {"pending", "sending"}
Terminal == {"sent", "canceled"}

(* ------------------------------------------------------------------ *)
(* ReminderStore: the operations as functions of the loaded collection *)
(* ------------------------------------------------------------------ *)
\* indices of a list, and the first index satisfying a test (0 if none)
Min(S) == CHOOSE x \in S : \A y \in S : x <= y
FirstIdx(S) == IF S = {} THEN 0 ELSE Min(S)

\* the record create() builds from opts
NewReminder(id, clock, opts) ==
    [ id |-> id,
      createdAtMs |-> clock,
      status |-> "pending",
      attempts |-> 0,
      sourceMessageId |-> opts.sourceMessageId,
      dueAtMs |-> opts.dueAtMs,
      creatorUserId |-> opts.creatorUserId,
      creatorChatType |-> opts.creatorChatType,
      creatorGroupId |-> opts.creatorGroupId,
      target |-> opts.target,
      text |-> Strip(SeqOrEmpty(opts.text)),
      lastError |-> None,
      nextAttemptAtMs |-> Absent,
      claimedAtMs |-> Absent,
      sentAtMs |-> Absent,
      canceledAtMs |-> Absent ]

\* create(): the normalised dedup key (None when absent or empty)
SourceKey(opts) ==
    IF opts.sourceMessageId = NoneSeq \/ opts.sourceMessageId = <<>>
    THEN NoneSeq
    ELSE Strip(opts.sourceMessageId)

\* create(): the test of the dedup loop on one record
DedupMatch(r, opts) ==
    /\ SeqOrEmpty(r.sourceMessageId) = SourceKey(opts)
    /\ StrOrEmpty(r.creatorUserId) = StrOrEmpty(opts.creatorUserId)
    /\ StrOrEmpty(r.creatorChatType) = StrOrEmpty(opts.creatorChatType)
    /\ IntOr0(r.dueAtMs) = IntOr0(opts.dueAtMs)
    /\ Strip(SeqOrEmpty(r.text)) = Strip(SeqOrEmpty(opts.text))
    /\ (StrOrEmpty(opts.creatorChatType) = "group"
          => StrOrEmpty(r.creatorGroupId) = StrOrEmpty(opts.creatorGroupId))

\* (mutant) create appending the record its dedup loop has found
CreateReappend(recs, opts, id, clock) ==
    LET key == SourceKey(opts)
        hit == IF key = NoneSeq \/ key = <<>>
               THEN 0
               ELSE FirstIdx({i \in DOMAIN recs : DedupMatch(recs[i], opts)})
    IN  IF hit # 0
        THEN [recs |-> Append(recs, recs[hit]), ret |-> <<recs[hit]>>,
              flush |-> TRUE, unlock |-> {}]
        ELSE [recs |-> Append(recs, NewReminder(id, clock, opts)),
              ret |-> <<NewReminder(id, clock, opts)>>,
              flush |-> TRUE, unlock |-> {}]

\* create(opts) on the loaded list recs, with uuid4() = id and time() = clock:
\* the list to keep, the record returned, and whether the list is flushed
Create(recs, opts, id, clock) ==
    LET key == SourceKey(opts)
        hit == IF key = NoneSeq \/ key = <<>>
               THEN 0
               ELSE FirstIdx({i \in DOMAIN recs : DedupMatch(recs[i], opts)})
    IN  IF hit # 0
        THEN [recs |-> recs, ret |-> <<recs[hit]>>, flush |-> FALSE, unlock |-> {}]
        ELSE [recs |-> Append(recs, NewReminder(id, clock, opts)),
              ret |-> <<NewReminder(id, clock, opts)>>,
              flush |-> TRUE, unlock |-> {}]

\* (mutant) the staleness test with >= for >
StaleClaimAtWindow(r, nowMs) ==
    /\ r.status = "sending"
    /\ IntOr0(r.claimedAtMs) # 0
    /\ nowMs - IntOr0(r.claimedAtMs) >= StaleMs

\* claim_due, first loop: a sending record whose claim is older than stale_ms
StaleClaim(r, nowMs) ==
    /\ r.status = "sending"
    /\ IntOr0(r.claimedAtMs) # 0
    /\ nowMs - IntOr0(r.claimedAtMs) > StaleMs

\* (mutant) claim_due without its first loop
UnstaleNever(recs, nowMs) == recs

\* claim_due, first loop over the loaded list
Unstale(recs, nowMs) ==
    [i \in DOMAIN recs |->
        IF StaleClaim(recs[i], nowMs)
        THEN [recs[i] EXCEPT !.status = "pending", !.claimedAtMs = Absent]
        ELSE recs[i]]

\* (mutant) the due test taking sending records as well
EligibleLive(r, nowMs) ==
    /\ r.status \in Live
    /\ ~(IntOr0(r.dueAtMs) > nowMs)
    /\ ~(r.nextAttemptAtMs # Absent /\ IntOr0(r.nextAttemptAtMs) > nowMs)

\* (mutant) the due test without the comparison of dueAtMs with now
EligibleEarly(r, nowMs) ==
    /\ r.status = "pending"
    /\ ~(r.nextAttemptAtMs # Absent /\ IntOr0(r.nextAttemptAtMs) > nowMs)

\* claim_due, second loop: the test that puts a record on the due list
Eligible(r, nowMs) ==
    /\ r.status = "pending"
    /\ ~(IntOr0(r.dueAtMs) > nowMs)
    /\ ~(r.nextAttemptAtMs # Absent /\ IntOr0(r.nextAttemptAtMs) > nowMs)

\* (mutant) the due list left in the order of the file
DueRankFileOrder(recs, E, i) == Cardinality({j \in E : j < i})

\* due.sort(key=dueAtMs) is stable: position of record i among the due ones
DueRank(recs, E, i) ==
    Cardinality({j \in E :
        \/ IntOr0(recs[j].dueAtMs) < IntOr0(recs[i].dueAtMs)
        \/ (IntOr0(recs[j].dueAtMs) = IntOr0(recs[i].dueAtMs) /\ j < i)})

Max0(n) == IF n < 0 THEN 0 ELSE n

\* claim_due(now_ms, limit) on the loaded list recs
ClaimDue(recs, nowMs, limit) ==
    LET r1 == Unstale(recs, nowMs)
        E == {i \in DOMAIN r1 : Eligible(r1[i], nowMs)}
        C == {i \in E : DueRank(r1, E, i) < Max0(limit)}
        r2 == [i \in DOMAIN r1 |->
                 IF i \in C
                 THEN [r1[i] EXCEPT !.status = "sending", !.claimedAtMs = nowMs]
                 ELSE r1[i]]
        order == [k \in 1..Cardinality(C) |->
                    CHOOSE i \in C : DueRank(r1, E, i) = k - 1]
    IN  [recs |-> r2,
         ret |-> [k \in 1..Cardinality(C) |-> r2[order[k]]],
         flush |-> (r1 # recs \/ C # {}),
         unlock |-> {}]

\* (mutant) cancel's prefix lookup without the test of the owner
CancelTargetAnyOwner(recs, userId, key) ==
    LET exact == FirstIdx({i \in DOMAIN recs :
                    /\ recs[i].id = key
                    /\ StrOrEmpty(recs[i].creatorUserId) = userId})
    IN  IF exact # 0 THEN exact
        ELSE IF Len(key) < IdLen
        THEN FirstIdx({i \in DOMAIN recs : StartsWith(recs[i].id, key)})
        ELSE 0

\* cancel(): the record the two lookups select (0 if none)
CancelTarget(recs, userId, key) ==
    LET exact == FirstIdx({i \in DOMAIN recs :
                    /\ recs[i].id = key
                    /\ StrOrEmpty(recs[i].creatorUserId) = userId})
    IN  IF exact # 0 THEN exact
        ELSE IF Len(key) < IdLen
        THEN FirstIdx({i \in DOMAIN recs :
                    /\ StrOrEmpty(recs[i].creatorUserId) = userId
                    /\ StartsWith(recs[i].id, key)})
        ELSE 0

\* (mutant) cancel taking every record of the owner its key is a prefix of
CancelEveryMatch(recs, userId, rawKey, clock) ==
    LET key == Strip(rawKey)
        t == IF key = <<>> THEN 0 ELSE CancelTarget(recs, userId, key)
        M == {i \in DOMAIN recs :
                /\ StrOrEmpty(recs[i].creatorUserId) = userId
                /\ StartsWith(recs[i].id, key)
                /\ recs[i].status \in Live}
    IN  IF t = 0
        THEN [recs |-> recs, ret |-> <<>>, flush |-> FALSE, unlock |-> {}]
        ELSE IF recs[t].status \notin Live
        THEN [recs |-> recs, ret |-> <<recs[t]>>, flush |-> FALSE, unlock |-> {}]
        ELSE LET r == [recs[t] EXCEPT !.status = "canceled",
                                      !.canceledAtMs = clock,
                                      !.nextAttemptAtMs = Absent,
                                      !.claimedAtMs = Absent]
             IN  [recs |-> [i \in DOMAIN recs |->
                              IF i \in M \cup {t}
                              THEN [recs[i] EXCEPT !.status = "canceled",
                                                   !.canceledAtMs = clock,
                                                   !.nextAttemptAtMs = Absent,
                                                   !.claimedAtMs = Absent]
                              ELSE recs[i]],
                  ret |-> <<r>>, flush |-> TRUE, unlock |-> {r.id}]

\* (mutant) cancel stamping and rewriting a record that is already terminal
CancelAgain(recs, userId, rawKey, clock) ==
    LET key == Strip(rawKey)
        t == IF key = <<>> THEN 0 ELSE CancelTarget(recs, userId, key)
    IN  IF t = 0
        THEN [recs |-> recs, ret |-> <<>>, flush |-> FALSE, unlock |-> {}]
        ELSE LET r == [recs[t] EXCEPT !.status = "canceled",
                                      !.canceledAtMs = clock,
                                      !.nextAttemptAtMs = Absent,
                                      !.claimedAtMs = Absent]
             IN  [recs |-> [recs EXCEPT ![t] = r], ret |-> <<r>>,
                  flush |-> TRUE, unlock |-> {r.id}]

\* cancel(user_id, reminder_id) on the loaded list recs, with time() = clock
Cancel(recs, userId, rawKey, clock) ==
    LET key == Strip(rawKey)
        t == IF key = <<>> THEN 0 ELSE CancelTarget(recs, userId, key)
    IN  IF t = 0
        THEN [recs |-> recs, ret |-> <<>>, flush |-> FALSE, unlock |-> {}]
        ELSE IF recs[t].status \notin Live
        THEN [recs |-> recs, ret |-> <<recs[t]>>, flush |-> FALSE, unlock |-> {}]
        ELSE LET r == [recs[t] EXCEPT !.status = "canceled",
                                      !.canceledAtMs = clock,
                                      !.nextAttemptAtMs = Absent,
                                      !.claimedAtMs = Absent]
             IN  [recs |-> [recs EXCEPT ![t] = r], ret |-> <<r>>,
                  flush |-> TRUE, unlock |-> {r.id}]

\* mark_sent / mark_failed: the first record with the id (0 if none)
ById(recs, id) == FirstIdx({i \in DOMAIN recs : recs[i].id = id})

\* (mutant) mark_sent dropping the record it has delivered
MarkSentPurge(recs, id, clock) ==
    LET t == ById(recs, id)
    IN  IF t = 0
        THEN [recs |-> recs, ret |-> <<>>, flush |-> FALSE, unlock |-> {}]
        ELSE [recs |-> SubSeq(recs, 1, t - 1) \o SubSeq(recs, t + 1, Len(recs)),
              ret |-> <<>>, flush |-> TRUE, unlock |-> {id}]

\* mark_sent(reminder_id) on the loaded list recs, with time() = clock
MarkSent(recs, id, clock) ==
    LET t == ById(recs, id)
    IN  IF t = 0
        THEN [recs |-> recs, ret |-> <<>>, flush |-> FALSE, unlock |-> {}]
        ELSE [recs |-> [recs EXCEPT ![t] =
                         [recs[t] EXCEPT !.status = "sent",
                                         !.sentAtMs = clock,
                                         !.lastError = None,
                                         !.nextAttemptAtMs = Absent,
                                         !.claimedAtMs = Absent]],
              ret |-> <<>>, flush |-> TRUE, unlock |-> {id}]

\* (mutant) mark_failed without the backoff
MarkFailedNoBackoff(recs, id, error, clock) ==
    LET t == ById(recs, id)
    IN  IF t = 0
        THEN [recs |-> recs, ret |-> <<>>, flush |-> FALSE, unlock |-> {}]
        ELSE [recs |-> [recs EXCEPT ![t] =
                         [recs[t] EXCEPT !.status = "pending",
                                         !.attempts = IntOr0(recs[t].attempts) + 1,
                                         !.lastError = IF error = "" THEN "send_failed" ELSE error,
                                         !.nextAttemptAtMs = clock,
                                         !.claimedAtMs = Absent]],
              ret |-> <<>>, flush |-> TRUE, unlock |-> {id}]

\* (mutant) mark_failed leaving attempts as it is
MarkFailedUncounted(recs, id, error, clock) ==
    LET t == ById(recs, id)
    IN  IF t = 0
        THEN [recs |-> recs, ret |-> <<>>, flush |-> FALSE, unlock |-> {}]
        ELSE [recs |-> [recs EXCEPT ![t] =
                         [recs[t] EXCEPT !.status = "pending",
                                         !.lastError = IF error = "" THEN "send_failed" ELSE error,
                                         !.nextAttemptAtMs = clock + BackoffMs,
                                         !.claimedAtMs = Absent]],
              ret |-> <<>>, flush |-> TRUE, unlock |-> {id}]

\* mark_failed(reminder_id, error) on the loaded list recs, with time() = clock
MarkFailed(recs, id, error, clock) ==
    LET t == ById(recs, id)
    IN  IF t = 0
        THEN [recs |-> recs, ret |-> <<>>, flush |-> FALSE, unlock |-> {}]
        ELSE [recs |-> [recs EXCEPT ![t] =
                         [recs[t] EXCEPT !.status = "pending",
                                         !.attempts = IntOr0(recs[t].attempts) + 1,
                                         !.lastError = IF error = "" THEN "send_failed" ELSE error,
                                         !.nextAttemptAtMs = clock + BackoffMs,
                                         !.claimedAtMs = Absent]],
              ret |-> <<>>, flush |-> TRUE, unlock |-> {id}]

\* list_pending_by_creator: the filter of the loop
Listed(r, userId, chatType, groupId) ==
    /\ r.status \in Live
    /\ StrOrEmpty(r.creatorUserId) = userId
    /\ IF chatType = "private"
       THEN r.creatorChatType = "private"
       ELSE StrOrEmpty(r.creatorGroupId) = StrOrEmpty(groupId)

\* list_pending_by_creator(user_id, chat_type, group_id) on the loaded list
ListPendingByCreator(recs, userId, chatType, groupId) ==
    LET L == {i \in DOMAIN recs : Listed(recs[i], userId, chatType, groupId)}
        order == [k \in 1..Cardinality(L) |->
                    CHOOSE i \in L : DueRank(recs, L, i) = k - 1]
    IN  [recs |-> recs,
         ret |-> [k \in 1..Cardinality(L) |-> recs[order[k]]],
         flush |-> FALSE, unlock |-> {}]

(* ------------------------------------------------------------------ *)
(* Send lock: <lock_dir>/<id>.lock, as functions of the lock directory *)
(* ------------------------------------------------------------------ *)
\* try_acquire_send_lock, FileExistsError branch: os.stat and the staleness test
StaleLock(lk, id, nowMs) == lk[id] # Absent /\ nowMs - lk[id] > StaleMs

\* try_acquire_send_lock(reminder_id, now_ms) run without interruption, the
\* file system's clock being clock: O_EXCL create, else unlink a stale marker
\* and acquire again
TryAcquireSendLock(lk, id, nowMs, clock) ==
    IF lk[id] = Absent \/ StaleLock(lk, id, nowMs)
    THEN [locks |-> [lk EXCEPT ![id] = clock], ok |-> TRUE]
    ELSE [locks |-> lk, ok |-> FALSE]

\* (mutant) release_send_lock leaving the marker where it is
ReleaseSendLockKept(lk, id) == lk

\* release_send_lock(reminder_id): os.unlink, errors swallowed
ReleaseSendLock(lk, id) == [lk EXCEPT ![id] = Absent]

\* release_send_lock for each of ids
ReleaseAll(lk, ids) ==
    [i \in DOMAIN lk |-> IF i \in ids THEN ReleaseSendLock(lk, i)[i] ELSE lk[i]]

(* ------------------------------------------------------------------ *)
(* State                                                               *)
(* ------------------------------------------------------------------ *)
VARIABLES
    now,        \* time.time() * 1000
    advances,   \* how often the clock has advanced
    file,       \* reminders.json: the persisted list of records
    locks,      \* reminders.locks: id -> mtime of <id>.lock, Absent if no file
    issued,     \* the ids uuid4() has returned
    last,       \* the last create call a caller logged: its opts and its result
    mem,        \* per process: self._reminders of its ReminderStore
    sched,      \* per process: its scheduler thread (pc, now, due)
    caller,     \* the thread making tool calls in process p1
    crashes,    \* how often a process has crashed and restarted
    createdRet, \* ids of the records create has returned
    canceledRet,\* ids of the records cancel has returned with status canceled
    fails,      \* per id: how often the Notifier has failed for it
    delivered,  \* ids for which sender.send has returned without raising
    stopping,   \* processes whose scheduler's stop event is set
    runtime,    \* _LOCK, _STORE, _SENDER, _SCHEDULER and the threads in _ensure_runtime
    creators,   \* threads of process p1 inside a store call, statement by statement
    tmp         \* the temporary file of the _flush under way, if any

env == <<now, advances>>
more == <<delivered, stopping, runtime, creators, tmp>>
procs == <<mem, sched, caller, crashes, createdRet, canceledRet, fails, more>>
vars == <<now, advances, file, locks, issued, last,
          mem, sched, caller, crashes, createdRet, canceledRet, fails,
          delivered, stopping, runtime, creators, tmp>>

NoCall == [op |-> "none", arg |-> <<>>, ret |-> <<>>]

Procs == {"p1", "p2"}
IdleSched == [pc |-> "idle", now |-> 0, due |-> <<>>]
IdleCaller == [pc |-> "idle", op |-> "none", id |-> <<>>, unlock |-> {}]
\* the threads of process p1 that make tool calls at the same time
Threads == {"t1", "t2"}
\* the threads of process p1 that call _ensure_runtime: tool calls and register
Entrants == {"t1", "t2", "t3"}
IdleCreator == [pc |-> "idle", opts |-> <<>>, id |-> <<>>, at |-> 0, own |-> FALSE,
                depth |-> 0, ret |-> None]
\* no _flush under way
NoTmp == [state |-> "none", before |-> <<>>, recs |-> <<>>, written |-> 0]
\* the module's globals once _ensure_runtime has returned: the lock free, one
\* store, one sender, one scheduler, started; no thread inside
Started == [lock |-> None, store |-> 1, sender |-> 1, scheduler |-> 1, started |-> 1,
            pc |-> [x \in Entrants |-> "out"], calls |-> [x \in Entrants |-> 0]]

\* ReminderStore.__init__ on an empty data directory, in every process, at
\* time t; _ensure_runtime has started each process's scheduler thread
InitWith(t, rt) ==
    /\ now = t
    /\ advances = 0
    /\ file = <<>>
    /\ locks = [i \in AllIds |-> Absent]
    /\ issued = {}
    /\ last = NoCall
    /\ mem = [p \in Procs |-> <<>>]
    /\ sched = [p \in Procs |-> IdleSched]
    /\ caller = IdleCaller
    /\ crashes = 0
    /\ createdRet = {}
    /\ canceledRet = {}
    /\ fails = [i \in AllIds |-> 0]
    /\ delivered = {}
    /\ stopping = {}
    /\ runtime = rt
    /\ creators = [x \in Threads |-> IdleCreator]
    /\ tmp = NoTmp

InitAt(t) == InitWith(t, Started)

InitStore == InitAt(StartMs)

\* time passes: by one backoff, or by a tick more than the staleness window;
\* sender.send returns or raises within its timeout
Deltas == {BackoffMs, StaleMs + TickMs}
Advance(D) ==
    /\ advances < MaxAdvances
    /\ \E d \in D :
          /\ d > SendTimeoutMs => \A p \in Procs : sched[p].pc # "send"
          /\ now' = now + d
    /\ advances' = advances + 1
    /\ UNCHANGED <<file, locks, issued, last, procs>>

(* ------------------------------------------------------------------ *)
(* The store's API called by one caller, each call run to completion.  *)
(* The calls take the sets their arguments are drawn from.             *)
(* ------------------------------------------------------------------ *)
Users == {"u1", "u2"}
\* (creatorChatType, creatorGroupId) as reminder_create passes them
Contexts == {<<"private", None>>, <<"group", "g1">>}
SourceIds == {NoneSeq, <<"m">>, <<" ", "m">>}
Texts == {<<"x">>, <<"x", " ">>}
DueTimes == {StartMs, StartMs + TickMs}
Errors == {"", "boom"}
Limits == {0, 1, TickLimit}
\* cancel keys: every string over the id alphabet up to a full id, and a padded one
Keys == UNION {[1..n -> IdChars] : n \in 1..IdLen} \cup {<<" ", "a">>}
\* two ids with a common first character
TwoIds == {id \in AllIds : id[1] = "a" /\ \A k \in 2..(IdLen - 1) : id[k] = "a"}

\* reminder_create: the target it computes for the record
TargetOf(userId, ctx) ==
    IF ctx[1] = "private"
    THEN [chatType |-> "private", to |-> userId]
    ELSE [chatType |-> "group", to |-> IF ctx[2] = None THEN "unknown" ELSE ctx[2]]

MkOpts(userId, ctx, sid, text, due) ==
    [ sourceMessageId |-> sid, dueAtMs |-> due, creatorUserId |-> userId,
      creatorChatType |-> ctx[1], creatorGroupId |-> ctx[2],
      target |-> TargetOf(userId, ctx), text |-> text ]

\* every opts the callers' argument sets give
OptsSet ==
    {MkOpts(u, c, sid, t, d) : u \in Users, c \in Contexts, sid \in SourceIds,
                               t \in Texts, d \in DueTimes}

\* a call's effect on the disk: _flush rewrites the file, unlink drops markers
Commit(res) ==
    /\ file' = IF res.flush THEN res.recs ELSE file
    /\ locks' = ReleaseAll(locks, res.unlock)

CallCreate(O, I, log) ==
    \E opts \in O, id \in I \ issued :
        LET res == Create(file, opts, id, now) IN
        /\ Len(res.recs) <= MaxRecords
        /\ Commit(res)
        /\ issued' = IF res.flush THEN issued \cup {id} ELSE issued
        /\ last' = IF log THEN [op |-> "create", arg |-> opts, ret |-> res.ret]
                          ELSE last
        /\ UNCHANGED <<env, procs>>

CallCancel(U, K) ==
    \E u \in U, k \in K :
        /\ Commit(Cancel(file, u, k, now))
        /\ UNCHANGED <<env, issued, last, procs>>

CallClaimDue(L) ==
    \E lim \in L :
        /\ Commit(ClaimDue(file, now, lim))
        /\ UNCHANGED <<env, issued, last, procs>>

CallMarkSent(I) ==
    \E id \in I :
        /\ Commit(MarkSent(file, id, now))
        /\ UNCHANGED <<env, issued, last, procs>>

CallMarkFailed(I, E) ==
    \E id \in I, e \in E :
        /\ \A i \in DOMAIN file : file[i].attempts < MaxAttempts
        /\ Commit(MarkFailed(file, id, e, now))
        /\ UNCHANGED <<env, issued, last, procs>>

CallList(U, C) ==
    \E u \in U, c \in C :
        /\ Commit(ListPendingByCreator(file, u, c[1], c[2]))
        /\ UNCHANGED <<env, issued, last, procs>>

CallTryAcquire(I) ==
    \E id \in I :
        \* _tick takes the lock of a reminder claim_due returned
        /\ \E i \in DOMAIN file : file[i].id = id /\ file[i].status = "sending"
        /\ locks' = TryAcquireSendLock(locks, id, now, now).locks
        /\ UNCHANGED <<env, file, issued, last, procs>>

CallRelease(I) ==
    \E id \in I :
        /\ locks' = ReleaseSendLock(locks, id)
        /\ UNCHANGED <<env, file, issued, last, procs>>

\* Time-centred: one creator, two due times, every limit, the clock moving
TimeOpts == {MkOpts("u1", <<"private", None>>, <<"m">>, <<"x">>, d) : d \in DueTimes}
StoreNext ==
    \/ Advance(Deltas)
    \/ CallCreate(TimeOpts, TwoIds, FALSE)
    \/ CallCancel({"u1"}, TwoIds)
    \/ CallClaimDue(Limits)
    \/ CallMarkSent(TwoIds)
    \/ CallMarkFailed(TwoIds, {"boom"})
    \/ CallList({"u1"}, Contexts)
    \/ CallTryAcquire(TwoIds)
    \/ CallRelease(TwoIds)

StoreSpec == InitStore /\ [][StoreNext]_vars

\* Dedup-centred: one creator in two chat contexts, plain and padded
\* sourceMessageId and text, records in every status, the clock standing
DedupOpts ==
    {MkOpts("u1", c, sid, t, StartMs) : c \in Contexts,
                                        sid \in SourceIds \ {NoneSeq}, t \in Texts}
DedupNext ==
    \/ CallCreate(DedupOpts, TwoIds, TRUE)
    \/ CallCancel({"u1"}, TwoIds)
    \/ CallClaimDue({TickLimit})
    \/ CallMarkSent(TwoIds)
    \/ CallMarkFailed(TwoIds, {"boom"})

DedupSpec == InitStore /\ [][DedupNext]_vars

(* ------------------------------------------------------------------ *)
(* Processes sharing the data directory. Each has one ReminderStore and *)
(* one scheduler thread; p1 also has a thread serving the tool calls.   *)
(* The steps are the store calls, the lock calls and the Notifier call. *)
(* A store call is either one step (whole), or two: _refresh with the   *)
(* work on self._reminders, then the unlink and the _flush of whatever  *)
(* self._reminders is by then. try_acquire_send_lock is a step for the  *)
(* O_EXCL create with the stat, and a step for the unlink.              *)
(* ------------------------------------------------------------------ *)
\* has a thread of process p read the file and not yet flushed?
Flushing(s, c, p) ==
    \/ s[p].pc \in {"claim_flush", "mark_flush"}
    \/ (p = "p1" /\ c.pc = "flush")

\* self._reminders is rebound by the next _refresh before anything reads it,
\* unless a flush is pending: only then is its value kept
Settle(m, s, c) == [p \in Procs |-> IF Flushing(s, c, p) THEN m[p] ELSE <<>>]

\* a store call by a thread of process p that computes res from the file:
\* the whole call, or the call up to its _flush (s, c: the threads after it)
Stored(p, res, whole, s, c) ==
    IF whole
    THEN /\ file' = IF res.flush THEN res.recs ELSE file
         /\ locks' = ReleaseAll(locks, res.unlock)
         /\ mem' = mem
    ELSE /\ file' = file
         /\ locks' = locks
         /\ mem' = Settle([mem EXCEPT ![p] = res.recs], s, c)

\* _tick: the loop moves on to the next claimed reminder, or the tick ends
NextReminder(sp) ==
    IF Len(sp.due) > 1
    THEN [sp EXCEPT !.due = Tail(sp.due), !.pc = "loop"]
    ELSE [sp EXCEPT !.due = <<>>, !.pc = "idle", !.now = 0]

\* (mutant) run() looping without looking at the stop event
TickStartAnyway(p, whole) ==
    /\ sched[p].pc = "idle"
    /\ LET res == ClaimDue(file, now, TickLimit)
           pc == IF ~whole /\ res.flush THEN "claim_flush"
                 ELSE IF res.ret = <<>> THEN "idle" ELSE "loop"
       IN
       /\ sched' = [sched EXCEPT ![p] =
                      [pc |-> pc,
                       now |-> IF pc = "idle" THEN 0 ELSE now,
                       due |-> [k \in DOMAIN res.ret |-> res.ret[k].id]]]
       /\ Stored(p, res, whole, sched', caller)
    /\ UNCHANGED <<env, issued, last, caller, crashes,
                   createdRet, canceledRet, fails, more>>

\* run(): while not self._stop.is_set(); _tick: now, and claim_due(now, 10)
TickStart(p, whole) ==
    /\ sched[p].pc = "idle"
    /\ p \notin stopping
    /\ LET res == ClaimDue(file, now, TickLimit)
           pc == IF ~whole /\ res.flush THEN "claim_flush"
                 ELSE IF res.ret = <<>> THEN "idle" ELSE "loop"
       IN
       /\ sched' = [sched EXCEPT ![p] =
                      [pc |-> pc,
                       now |-> IF pc = "idle" THEN 0 ELSE now,
                       due |-> [k \in DOMAIN res.ret |-> res.ret[k].id]]]
       /\ Stored(p, res, whole, sched', caller)
    /\ UNCHANGED <<env, issued, last, caller, crashes,
                   createdRet, canceledRet, fails, more>>

\* claim_due: _flush, and back in _tick
ClaimFlush(p) ==
    /\ sched[p].pc = "claim_flush"
    /\ file' = mem[p]
    /\ sched' = [sched EXCEPT ![p] =
                   IF sched[p].due = <<>>
                   THEN [sched[p] EXCEPT !.pc = "idle", !.now = 0]
                   ELSE [sched[p] EXCEPT !.pc = "loop"]]
    /\ mem' = Settle(mem, sched', caller)
    /\ UNCHANGED <<env, locks, issued, last, caller, crashes,
                   createdRet, canceledRet, fails, more>>

\* try_acquire_send_lock(rid, now): the O_EXCL create; if the marker exists,
\* its stat: a stale one is to be unlinked, a fresh one makes _tick skip rid
Acquire(p) ==
    /\ sched[p].pc = "loop"
    /\ LET rid == Head(sched[p].due) IN
       IF locks[rid] = Absent
       THEN /\ locks' = [locks EXCEPT ![rid] = now]
            /\ sched' = [sched EXCEPT ![p].pc = "send"]
       ELSE /\ locks' = locks
            /\ sched' = [sched EXCEPT ![p] =
                  IF StaleLock(locks, rid, sched[p].now)
                  THEN [sched[p] EXCEPT !.pc = "unlink"]
                  ELSE NextReminder(sched[p])]
    /\ UNCHANGED <<env, file, issued, last, mem, caller, crashes,
                   createdRet, canceledRet, fails, more>>

\* try_acquire_send_lock: os.unlink of the stale marker, then acquire again;
\* if the marker is gone the unlink raises and _tick skips rid
Unlink(p) ==
    /\ sched[p].pc = "unlink"
    /\ LET rid == Head(sched[p].due) IN
       IF locks[rid] # Absent
       THEN /\ locks' = [locks EXCEPT ![rid] = Absent]
            /\ sched' = [sched EXCEPT ![p].pc = "loop"]
       ELSE /\ locks' = locks
            /\ sched' = [sched EXCEPT ![p] = NextReminder(sched[p])]
    /\ UNCHANGED <<env, file, issued, last, mem, caller, crashes,
                   createdRet, canceledRet, fails, more>>

\* _tick after sender.send: mark_sent / mark_failed computing res
Marked(p, res, whole) ==
    /\ sched' = [sched EXCEPT ![p].pc =
                    IF ~whole /\ res.flush THEN "mark_flush" ELSE "release"]
    /\ Stored(p, res, whole, sched', caller)

\* sender.send returns; mark_sent(rid)
SendOk(p, whole) ==
    /\ sched[p].pc = "send"
    /\ Marked(p, MarkSent(file, Head(sched[p].due), now), whole)
    /\ delivered' = delivered \cup {Head(sched[p].due)}
    /\ UNCHANGED <<env, issued, last, caller, crashes,
                   createdRet, canceledRet, fails, stopping, runtime, creators, tmp>>

\* (mutant) sender.send raises and nothing catches it: the exception leaves
\* _tick and run(), the thread ends with the lock marker in place
SendFailUncaught(p, E, whole) ==
    /\ sched[p].pc = "send"
    /\ fails[Head(sched[p].due)] < MaxAttempts
    /\ sched' = [sched EXCEPT ![p] = [IdleSched EXCEPT !.pc = "stopped"]]
    /\ fails' = [fails EXCEPT ![Head(sched[p].due)] = @ + 1]
    /\ UNCHANGED <<env, file, locks, mem, issued, last, caller, crashes,
                   createdRet, canceledRet, more>>

\* sender.send raises; mark_failed(rid, str(e))
SendFail(p, E, whole) ==
    /\ sched[p].pc = "send"
    /\ fails[Head(sched[p].due)] < MaxAttempts
    /\ \E e \in E : Marked(p, MarkFailed(file, Head(sched[p].due), e, now), whole)
    /\ fails' = [fails EXCEPT ![Head(sched[p].due)] = @ + 1]
    /\ UNCHANGED <<env, issued, last, caller, crashes, createdRet, canceledRet, more>>

\* mark_sent / mark_failed: release_send_lock and _flush
MarkFlush(p) ==
    /\ sched[p].pc = "mark_flush"
    /\ locks' = ReleaseSendLock(locks, Head(sched[p].due))
    /\ file' = mem[p]
    /\ sched' = [sched EXCEPT ![p].pc = "release"]
    /\ mem' = Settle(mem, sched', caller)
    /\ UNCHANGED <<env, issued, last, caller, crashes,
                   createdRet, canceledRet, fails, more>>

\* _tick, finally: release_send_lock(rid), and on to the next reminder
Release(p) ==
    /\ sched[p].pc = "release"
    /\ locks' = ReleaseSendLock(locks, Head(sched[p].due))
    /\ sched' = [sched EXCEPT ![p] = NextReminder(sched[p])]
    /\ UNCHANGED <<env, file, issued, last, mem, caller, crashes,
                   createdRet, canceledRet, fails, more>>

\* a store call of the tool thread computing res: it returns, or has its
\* _flush ahead
Called(res, op, id, whole) ==
    /\ caller' = IF ~whole /\ res.flush
                 THEN [pc |-> "flush", op |-> op, id |-> id, unlock |-> res.unlock]
                 ELSE IdleCaller
    /\ Stored("p1", res, whole, sched, caller')

\* reminder_create: store.create(opts)
CallerCreate(O, I, whole) ==
    /\ caller.pc = "idle"
    /\ \E opts \in O, id \in I \ issued :
         LET res == Create(file, opts, id, now) IN
         /\ Len(res.recs) <= MaxRecords
         /\ Called(res, "create", id, whole)
         /\ issued' = IF res.flush THEN issued \cup {id} ELSE issued
         /\ createdRet' = IF caller'.pc = "flush" THEN createdRet
                          ELSE createdRet \cup {res.ret[1].id}
    /\ UNCHANGED <<env, last, sched, crashes, canceledRet, fails, more>>

\* reminder_cancel: store.cancel(user_id, reminder_id)
CallerCancel(U, K, whole) ==
    /\ caller.pc = "idle"
    /\ \E u \in U, k \in K :
         LET res == Cancel(file, u, k, now) IN
         /\ Called(res, "cancel", IF res.ret = <<>> THEN <<>> ELSE res.ret[1].id, whole)
         /\ canceledRet' = IF caller'.pc # "flush" /\ res.ret # <<>>
                              /\ res.ret[1].status = "canceled"
                           THEN canceledRet \cup {res.ret[1].id}
                           ELSE canceledRet
    /\ UNCHANGED <<env, issued, last, sched, crashes, createdRet, fails, more>>

\* reminder_list: store.list_pending_by_creator, which only reads
CallerList(U, C, whole) ==
    /\ caller.pc = "idle"
    /\ \E u \in U, c \in C :
         Called(ListPendingByCreator(file, u, c[1], c[2]), "list", <<>>, whole)
    /\ UNCHANGED <<env, issued, last, sched, crashes,
                   createdRet, canceledRet, fails, more>>

\* (mutant) a rewrite that reads the file again and adds to it the records
\* the call has appended
CallerFlushMerged ==
    /\ caller.pc = "flush"
    /\ locks' = ReleaseAll(locks, caller.unlock)
    /\ file' = file \o SelectSeq(mem["p1"], LAMBDA r : r.id = caller.id
                                            /\ \A i \in DOMAIN file : file[i].id # r.id)
    /\ caller' = IdleCaller
    /\ mem' = Settle(mem, sched, caller')
    /\ createdRet' = IF caller.op = "create" THEN createdRet \cup {caller.id}
                     ELSE createdRet
    /\ canceledRet' = IF caller.op = "cancel" THEN canceledRet \cup {caller.id}
                      ELSE canceledRet
    /\ UNCHANGED <<env, issued, last, sched, crashes, fails, more>>

\* create / cancel: release_send_lock (cancel), _flush, and the call returns
CallerFlush ==
    /\ caller.pc = "flush"
    /\ locks' = ReleaseAll(locks, caller.unlock)
    /\ file' = mem["p1"]
    /\ caller' = IdleCaller
    /\ mem' = Settle(mem, sched, caller')
    /\ createdRet' = IF caller.op = "create" THEN createdRet \cup {caller.id}
                     ELSE createdRet
    /\ canceledRet' = IF caller.op = "cancel" THEN canceledRet \cup {caller.id}
                      ELSE canceledRet
    /\ UNCHANGED <<env, issued, last, sched, crashes, fails, more>>

\* process p dies at any point and is started again: its threads are gone,
\* the file and the lock markers stay as they are
Crash(p) ==
    /\ crashes < MaxCrashes
    /\ crashes' = crashes + 1
    /\ sched' = [sched EXCEPT ![p] = IdleSched]
    /\ caller' = IF p = "p1" THEN IdleCaller ELSE caller
    /\ mem' = Settle(mem, sched', caller')
    /\ stopping' = stopping \ {p}
    /\ UNCHANGED <<env, file, locks, issued, last, createdRet, canceledRet, fails,
                   delivered, runtime, creators, tmp>>

\* one creator, a reminder due at once
CallerOpts == {MkOpts("u1", <<"private", None>>, NoneSeq, <<"x">>, StartMs)}
\* the id uuid4() returns first
OneId == {[k \in 1..IdLen |-> "a"]}
\* the ids uuid4() may return next, two reminders being created in all
FreshIds == IF OneId \subseteq issued THEN TwoIds ELSE OneId

\* Store calls as steps: two scheduler processes and the tool thread
Next ==
    \/ Advance({StaleMs + TickMs})
    \/ \E p \in Procs : TickStart(p, TRUE)
    \/ \E p \in Procs : Acquire(p)
    \/ \E p \in Procs : Unlink(p)
    \/ \E p \in Procs : SendOk(p, TRUE)
    \/ \E p \in Procs : SendFail(p, {"boom"}, TRUE)
    \/ \E p \in Procs : Release(p)
    \/ \E p \in Procs : Crash(p)
    \/ CallerCreate(CallerOpts, FreshIds, TRUE)
    \/ CallerCancel({"u1"}, TwoIds, TRUE)
    \/ CallerList({"u1"}, {<<"private", None>>}, TRUE)

Spec == InitStore /\ [][Next]_vars

\* the steps ReminderScheduler.run keeps taking: tick after tick, sender.send
\* returning in the end
Run(p) ==
    \/ TickStart(p, TRUE)
    \/ Acquire(p)
    \/ Unlink(p)
    \/ SendOk(p, TRUE)
    \/ Release(p)

\* An instant d later, seen from a clock that is not moved: it is d older.
\* Instants more than two windows old are kept two windows old.
Window == StaleMs + TickMs
Older(t, d) ==
    IF t = Absent \/ t = 0 THEN t
    ELSE IF t - d < now - 2 * Window THEN now - 2 * Window ELSE t - d

\* time passes by d while no tick is more than a window old, the clock being
\* kept and every stored instant made older; sender.send returns or raises
\* within its timeout
Elapse(d) ==
    /\ d > SendTimeoutMs => \A p \in Procs : sched[p].pc # "send"
    /\ \A p \in Procs : sched[p].pc # "idle" => sched[p].now = now
    /\ file' = [i \in DOMAIN file |->
                  [file[i] EXCEPT !.createdAtMs = Older(@, d),
                                  !.dueAtMs = Older(@, d),
                                  !.nextAttemptAtMs = Older(@, d),
                                  !.claimedAtMs = Older(@, d),
                                  !.sentAtMs = Older(@, d),
                                  !.canceledAtMs = Older(@, d)]]
    /\ locks' = [id \in DOMAIN locks |-> Older(locks[id], d)]
    /\ sched' = [p \in Procs |-> [sched[p] EXCEPT !.now = Older(@, d)]]
    /\ UNCHANGED <<env, issued, last, mem, caller, crashes,
                   createdRet, canceledRet, fails, more>>

\* Store calls as steps, one reminder, time without end
FairNext ==
    \/ Elapse(Window)
    \/ \E p \in Procs : Run(p)
    \/ \E p \in Procs : SendFail(p, {"boom"}, TRUE)
    \/ \E p \in Procs : Crash(p)
    \/ CallerCreate(CallerOpts, OneId, TRUE)
    \/ CallerCancel({"u1"}, OneId, TRUE)
    \/ CallerList({"u1"}, {<<"private", None>>}, TRUE)

\* the schedulers keep running and time keeps passing
FairSpec ==
    /\ InitAt(StartMs + 2 * Window)
    /\ [][FairNext]_vars
    /\ WF_vars(Elapse(Window))
    /\ \A p \in Procs : WF_vars(Run(p))

\* File reads and rewrites as steps: the same threads, one reminder
RaceNext ==
    \/ Advance({StaleMs + TickMs})
    \/ \E p \in Procs : TickStart(p, FALSE)
    \/ \E p \in Procs : ClaimFlush(p)
    \/ \E p \in Procs : Acquire(p)
    \/ \E p \in Procs : Unlink(p)
    \/ \E p \in Procs : SendOk(p, FALSE)
    \/ \E p \in Procs : SendFail(p, {"boom"}, FALSE)
    \/ \E p \in Procs : MarkFlush(p)
    \/ \E p \in Procs : Release(p)
    \/ \E p \in Procs : Crash(p)
    \/ CallerCreate(CallerOpts, OneId, FALSE)
    \/ CallerCancel({"u1"}, OneId, FALSE)
    \/ CallerList({"u1"}, {<<"private", None>>}, FALSE)
    \/ CallerFlush

RaceSpec == InitStore /\ [][RaceNext]_vars

\* one creator and one due time, with and without a sourceMessageId
RaceOpts ==
    {MkOpts("u1", <<"private", None>>, sid, <<"x">>, StartMs) :
        sid \in {NoneSeq, <<"m">>}}

\* File reads and rewrites as steps, two reminders, the clock standing: create
\* and cancel calls of the tool thread among the ticks of both schedulers
CreateRaceNext ==
    \/ \E p \in Procs : TickStart(p, FALSE)
    \/ \E p \in Procs : ClaimFlush(p)
    \/ \E p \in Procs : Acquire(p)
    \/ \E p \in Procs : SendOk(p, FALSE)
    \/ \E p \in Procs : MarkFlush(p)
    \/ \E p \in Procs : Release(p)
    \/ CallerCreate(RaceOpts, TwoIds, FALSE)
    \/ CallerCancel({"u1"}, TwoIds, FALSE)
    \/ CallerFlush

CreateRaceSpec == InitStore /\ [][CreateRaceNext]_vars

\* ReminderScheduler.stop(): the event is set, and run() sees it at the top of
\* its loop, after the tick under way and its sleep: the thread ends
Stop(p) ==
    /\ sched[p].pc = "idle"
    /\ sched' = [sched EXCEPT ![p].pc = "stopped"]
    /\ UNCHANGED <<env, file, locks, issued, last, mem, caller, crashes,
                   createdRet, canceledRet, fails, more>>

\* the process whose scheduler is followed tick by tick
Ticking == {"p1"}

\* One scheduler and the tool thread: two reminders due at different times,
\* sends that fail, the stop signal, a crash of the process
TickNext ==
    \/ Advance({StaleMs + TickMs})
    \/ \E p \in Ticking : TickStart(p, TRUE)
    \/ \E p \in Ticking : Acquire(p)
    \/ \E p \in Ticking : Unlink(p)
    \/ \E p \in Ticking : SendOk(p, TRUE)
    \/ \E p \in Ticking : SendFail(p, {"boom"}, TRUE)
    \/ \E p \in Ticking : Release(p)
    \/ \E p \in Ticking : Stop(p)
    \/ \E p \in Ticking : Crash(p)
    \/ CallerCreate(TimeOpts, TwoIds, TRUE)
    \/ CallerCancel({"u1"}, TwoIds, TRUE)

TickSpec == InitStore /\ [][TickNext]_vars

(* ------------------------------------------------------------------ *)
(* Properties of the store's operations                                *)
(* ------------------------------------------------------------------ *)
IdsOf(rs) == {rs[k].id : k \in DOMAIN rs}

\* the instants at which a later claim_due is tried against a deadline d
Around(d) == {d - BackoffMs, d - 1, d, d + 1}

\* C6: after mark_failed(id, error) on a sending record the record is pending,
\* attempts is one more than before, lastError is recorded, nextAttemptAtMs is
\* the time of the failure plus 10 seconds, claimedAtMs is absent, and no
\* claim_due(t, limit) with t < nextAttemptAtMs claims or changes the record.
C6_MarkFailedRequeues ==
    \A i \in DOMAIN file : \A e \in Errors :
        file[i].status = "sending" =>
            LET res == MarkFailed(file, file[i].id, e, now)
                r == res.recs[i]
            IN  /\ res.flush
                /\ r.status = "pending"
                /\ r.attempts = file[i].attempts + 1
                /\ r.lastError # None /\ (e # "" => r.lastError = e)
                /\ r.nextAttemptAtMs = now + BackoffMs
                /\ r.claimedAtMs = Absent
                /\ r = [file[i] EXCEPT !.status = r.status, !.attempts = r.attempts,
                                       !.lastError = r.lastError,
                                       !.nextAttemptAtMs = r.nextAttemptAtMs,
                                       !.claimedAtMs = r.claimedAtMs]
                /\ \A t \in Around(r.nextAttemptAtMs), lim \in Limits :
                      LET c == ClaimDue(res.recs, t, lim)
                      IN  t < r.nextAttemptAtMs =>
                             r.id \notin IdsOf(c.ret) /\ c.recs[i] = r

\* a sending record that has failed before: mark_failed has requeued it, the
\* backoff has passed, claim_due has claimed it again
C6_Witness ==
    \E i \in DOMAIN file :
        /\ file[i].status = "sending"
        /\ file[i].attempts >= 1
        /\ file[i].claimedAtMs >= file[i].nextAttemptAtMs

\* C8: a sending record whose claimedAtMs is more than 2 minutes older than t
\* is reverted to pending, claimedAtMs cleared, by claim_due(t, limit), and is
\* eligible at once: the same call claims it anew when the limit allows; a
\* sending record whose claim is not older than 2 minutes is left untouched.
C8_StaleClaimReverted ==
    \A i \in DOMAIN file :
        file[i].status = "sending" =>
            \A t \in Around(file[i].claimedAtMs + StaleMs) \cup {now} :
                LET none == ClaimDue(file, t, 0)
                    all == ClaimDue(file, t, TickLimit)
                IN  IF t - file[i].claimedAtMs > StaleMs
                    THEN /\ none.flush
                         /\ none.recs[i] = [file[i] EXCEPT !.status = "pending",
                                                            !.claimedAtMs = Absent]
                         /\ all.flush
                         /\ all.recs[i] = [file[i] EXCEPT !.claimedAtMs = t]
                         /\ file[i].id \in IdsOf(all.ret)
                    ELSE /\ none.recs[i] = file[i]
                         /\ all.recs[i] = file[i]
                         /\ file[i].id \notin IdsOf(all.ret)

\* a claim older than 2 minutes is on disk, and claim_due at the current time
\* takes it over
C8_Witness ==
    \E i \in DOMAIN file :
        /\ file[i].status = "sending"
        /\ now - file[i].claimedAtMs > StaleMs
        /\ ClaimDue(file, now, TickLimit).recs[i].claimedAtMs = now

\* C3: create called twice in sequence with the same non-empty sourceMessageId
\* and equal creatorUserId, creatorChatType, dueAtMs, text (and creatorGroupId)
\* returns the same id both times, and the second call appends no record and
\* changes no existing record, whatever happened to the record in between.
C3_CreateIdempotent ==
    [][ ( /\ last.op = "create"
          /\ last'.op = "create"
          /\ last'.arg = last.arg
          /\ SeqOrEmpty(last.arg.sourceMessageId) # <<>>
          \* the step is a create call: only create draws an id or logs
          /\ (issued' # issued \/ last' # last) )
        => /\ last'.ret[1].id = last.ret[1].id
           /\ file' = file ]_vars

\* C10: cancel(userId, key) with a key shorter than a full id changes a record
\* only when key is a prefix of the id of exactly one record owned by userId,
\* and then it is that record it changes.
C10_CancelByUniquePrefix ==
    \A u \in Users, k \in Keys :
        Len(Strip(k)) < IdLen =>
            LET res == Cancel(file, u, k, now)
                M == {i \in DOMAIN file :
                        /\ file[i].creatorUserId = u
                        /\ StartsWith(file[i].id, Strip(k))}
            IN  /\ Cardinality(M) # 1 => res.recs = file /\ ~res.flush
                /\ \A i \in DOMAIN file : res.recs[i] # file[i] => M = {i}

\* C14: claim_due(now, limit) claims min(limit, number of eligible records)
\* records, so at most limit (a tick passes 10); it returns them in ascending
\* order of dueAtMs; and no eligible record it leaves unclaimed is due earlier
\* than a record it claimed.
C14_EarliestDueFirst ==
    \A lim \in Limits \cup {TickLimit} :
        LET c == ClaimDue(file, now, lim)
            r1 == Unstale(file, now)
            E == {i \in DOMAIN r1 : Eligible(r1[i], now)}
            n == Len(c.ret)
        IN  /\ n <= Max0(lim)
            /\ n = Min({Max0(lim), Cardinality(E)})
            /\ Cardinality(IdsOf(c.ret)) = n
            /\ \A k \in 1..(n - 1) : c.ret[k].dueAtMs <= c.ret[k + 1].dueAtMs
            /\ \A i \in E : r1[i].id \notin IdsOf(c.ret) =>
                  \A k \in 1..n : r1[i].dueAtMs >= c.ret[k].dueAtMs

\* two records are eligible at once and the one due later comes first in the
\* file
C14_Witness ==
    /\ Len(file) = 2
    /\ \A i \in DOMAIN file : Eligible(file[i], now)
    /\ file[1].dueAtMs > file[2].dueAtMs

\* (chat_type, group_id) as reminder_list passes them: group_id is optional
ListContexts == Contexts \cup {<<"group", None>>}

\* C15: list_pending_by_creator(userId, chatType, groupId) returns exactly the
\* pending and sending records owned by userId in the same chat context (a
\* private listing the private records, a group listing the group records of
\* that groupId and never a private record), in ascending order of dueAtMs,
\* and leaves the store unchanged.
C15_ListScopedToContext ==
    \A u \in Users, c \in ListContexts :
        LET res == ListPendingByCreator(file, u, c[1], c[2])
            Same(r) == IF c[1] = "private"
                       THEN r.creatorChatType = "private"
                       ELSE /\ r.creatorChatType = "group"
                            /\ StrOrEmpty(r.creatorGroupId) = StrOrEmpty(c[2])
            want == {i \in DOMAIN file : /\ file[i].status \in Live
                                         /\ file[i].creatorUserId = u
                                         /\ Same(file[i])}
        IN  /\ res.recs = file /\ ~res.flush /\ res.unlock = {}
            /\ Len(res.ret) = Cardinality(want)
            /\ \A i \in DOMAIN file :
                  (i \in want) <=> (\E k \in DOMAIN res.ret : res.ret[k] = file[i])
            /\ \A k \in 1..(Len(res.ret) - 1) :
                  res.ret[k].dueAtMs <= res.ret[k + 1].dueAtMs

(* ------------------------------------------------------------------ *)
(* Properties of the scheduler and the callers running together        *)
(* ------------------------------------------------------------------ *)
\* C1: whatever the interleaving of tick steps and tool calls, a record whose
\* persisted status is sent or canceled keeps that status in every later
\* state of the file.
C1_TerminalStatusFinal ==
    [][ \A i \in DOMAIN file, j \in DOMAIN file' :
          (file'[j].id = file[i].id /\ file[i].status \in Terminal)
              => file'[j].status = file[i].status ]_vars

\* the schedulers that have called sender.send for id and not seen it return
InFlight(id) == {p \in Procs : sched[p].pc = "send" /\ Head(sched[p].due) = id}

\* C2: for every reminder id at most one delivery attempt (a sender.send call
\* that has not returned) is in flight at any time, over all processes.
C2_OneDeliveryInFlight == \A id \in AllIds : Cardinality(InFlight(id)) <= 1

\* C4: once cancel has returned a record with status canceled, no claim_due
\* of a later tick returns that reminder (so no later tick calls sender.send
\* for it).
C4_CanceledNeverClaimed ==
    [][ \A p \in Procs :
          (sched[p].pc = "idle" /\ sched'[p].pc # "idle")
              => \A k \in DOMAIN sched'[p].due : sched'[p].due[k] \notin canceledRet ]_vars

Skips(p) ==
    /\ sched[p].pc \in {"loop", "unlink"}
    /\ crashes' = crashes
    /\ sched'[p] = NextReminder(sched[p])

\* C9 (as stated): a tick that fails to acquire the send lock of a reminder it
\* has claimed leaves the record as it is, sending, and the next tick, one
\* sleep later, claims the reminder again.
C9_SkippedRetriedNextTick ==
    [][ \A p \in Procs : Skips(p) =>
          /\ file' = file
          /\ \A i \in DOMAIN file :
                (file[i].id = Head(sched[p].due) /\ file[i].status = "sending")
                    => file[i].id \in IdsOf(ClaimDue(file', now' + TickMs, TickLimit).ret)
      ]_vars

\* C9 (amended): a tick that fails to acquire the send lock of a reminder it
\* has claimed calls neither sender.send nor a mark for it and leaves the file
\* and the lock markers as they are; the record, while sending, is returned by
\* a later claim_due(t, 10) exactly when its claim is more than 2 minutes
\* older than t: no sooner tick retries it.
C9_SkippedWaitsForStaleness ==
    [][ \A p \in Procs : Skips(p) =>
          /\ file' = file
          /\ locks' = locks
          /\ fails' = fails
          /\ sched'[p].pc # "send"
          /\ \A i \in DOMAIN file :
                (file[i].id = Head(sched[p].due) /\ file[i].status = "sending")
                    => \A t \in {now + TickMs} \cup Around(file[i].claimedAtMs + StaleMs) :
                          (file[i].id \in IdsOf(ClaimDue(file, t, TickLimit).ret))
                              <=> (t - file[i].claimedAtMs > StaleMs)
      ]_vars

\* a tick has claimed a reminder that is sending on disk, and the lock marker
\* it is about to try exists and is not stale: try_acquire_send_lock fails
C9_Witness ==
    \E p \in Procs :
        /\ sched[p].pc = "loop"
        /\ locks[Head(sched[p].due)] # Absent
        /\ ~StaleLock(locks, Head(sched[p].due), sched[p].now)
        /\ \E i \in DOMAIN file :
              file[i].id = Head(sched[p].due) /\ file[i].status = "sending"

(* ------------------------------------------------------------------ *)
(* Properties of one scheduler's tick                                  *)
(* ------------------------------------------------------------------ *)
\* C11: when sender.send raises for a claimed reminder the tick carries on: it
\* keeps the reminders it has claimed, gives one up only after trying its lock
\* or after its delivery attempt, one at a time and in order, so that every
\* remaining one is attempted; and the scheduler thread ends only by the stop
\* signal seen between two ticks, never by a failed delivery.
C11_FailureKeepsTickGoing ==
    [][ \A p \in Procs : crashes' = crashes =>
          /\ (sched[p].pc = "send" /\ fails' # fails)
                => (sched'[p].pc = "release" /\ sched'[p].due = sched[p].due)
          /\ (sched[p].pc \notin {"idle", "stopped"} /\ sched'[p].due # sched[p].due)
                => /\ sched[p].pc \in {"loop", "unlink", "release"}
                   /\ sched'[p] = NextReminder(sched[p])
                   /\ Len(sched[p].due) > 1
                         => (sched'[p].pc = "loop" /\ sched'[p].due = Tail(sched[p].due))
          /\ (sched'[p].pc = "stopped") => (sched[p].pc \in {"idle", "stopped"})
      ]_vars

\* a tick is delivering the second reminder it claimed after sender.send has
\* failed, in this very tick, for the first
C11_Witness ==
    \E p \in Procs :
        /\ sched[p].pc = "send"
        /\ \E i \in DOMAIN file :
              /\ file[i].id # Head(sched[p].due)
              /\ file[i].status = "pending"
              /\ fails[file[i].id] > 0
              /\ file[i].nextAttemptAtMs = sched[p].now + BackoffMs

\* C12: a tick that has acquired a reminder's send lock leaves that reminder
\* (for the next one, or ending the tick) only with the lock marker removed,
\* after a delivery that succeeded as after one that failed; so as long as no
\* process has crashed a marker exists only while the tick that created it is
\* at that reminder, and none exists while the schedulers are between ticks.
C12_LocksReleased ==
    [][ /\ \A p \in Procs :
              ( /\ crashes' = crashes
                /\ sched[p].pc \in {"send", "release"}
                /\ sched'[p].pc \notin {"send", "release"} )
                  => locks'[Head(sched[p].due)] = Absent
        /\ crashes' = 0 =>
              \A id \in AllIds :
                  locks'[id] # Absent
                      => \E p \in Procs : /\ sched'[p].pc \in {"send", "release"}
                                          /\ Head(sched'[p].due) = id
      ]_vars

\* the scheduler is between two ticks after one delivery that succeeded and
\* one that failed, no process has crashed, and no lock marker exists
C12_Witness ==
    /\ crashes = 0
    /\ \A p \in Procs : sched[p].pc = "idle"
    /\ \A id \in AllIds : locks[id] = Absent
    /\ \E i \in DOMAIN file : file[i].status = "sent"
    /\ \E i \in DOMAIN file : file[i].status = "pending" /\ fails[file[i].id] > 0

\* C13: claim_due(now, limit) returns and moves to sending only records whose
\* dueAtMs is not after now and which were pending (or whose stale claim the
\* same call has just reverted to pending), setting claimedAtMs = now; it
\* makes no other record sending; and whenever a tick is in sender.send, it
\* is for a reminder its claim_due returned, due no later than the tick's now.
C13_NothingBeforeDue ==
    /\ \A lim \in Limits :
          LET c == ClaimDue(file, now, lim) IN
          \A i \in DOMAIN file :
              IF file[i].id \in IdsOf(c.ret)
              THEN /\ file[i].status = "pending" \/ StaleClaim(file[i], now)
                   /\ file[i].dueAtMs <= now
                   /\ c.recs[i] = [file[i] EXCEPT !.status = "sending",
                                                  !.claimedAtMs = now]
                   /\ \E k \in DOMAIN c.ret : c.ret[k] = c.recs[i]
              ELSE c.recs[i].status = "sending" => c.recs[i] = file[i]
    /\ \A p \in Procs :
          sched[p].pc = "send" =>
              /\ sched[p].now <= now
              /\ \E i \in DOMAIN file : /\ file[i].id = Head(sched[p].due)
                                         /\ file[i].dueAtMs <= sched[p].now

\* a tick is delivering a reminder that is due while another reminder, not
\* yet due, is still pending
C13_Witness ==
    /\ \E p \in Procs : sched[p].pc = "send"
    /\ \E i \in DOMAIN file : file[i].status = "pending" /\ file[i].dueAtMs > now

(* ------------------------------------------------------------------ *)
(* Properties of the collection under interleaved calls                *)
(* ------------------------------------------------------------------ *)
\* C16: no two records of the collection have the same id, in the file as in
\* the list each process has loaded, whatever the interleaving of the reads
\* and rewrites of create with those of cancel, claim_due and mark_sent
\* (uuid4 being taken never to return the same value twice).
C16_IdsUnique ==
    \A L \in {file} \cup {mem[p] : p \in Procs} :
        \A i \in DOMAIN L, j \in DOMAIN L : L[i].id = L[j].id => i = j

\* a create call has appended its record and not yet rewritten the file while
\* a scheduler is between the read and the rewrite of a call of its own, the
\* file holding a record already
C16_Witness ==
    /\ caller.pc = "flush" /\ caller.op = "create"
    /\ Len(mem["p1"]) = 2
    /\ Len(file) >= 1
    /\ \E p \in Procs : sched[p].pc \in {"claim_flush", "mark_flush"}

(* ------------------------------------------------------------------ *)
(* The request parser (mcp_tools_tools/reminders/parser.py).           *)
(* A request is a sequence of characters, each a string: ASCII         *)
(* characters stand for themselves, the others are written by name:    *)
(*   zai U+5728   jin U+4ECA   ming U+660E  hou U+540E   tian U+5929   *)
(*   wan U+665A   dian U+70B9  ban U+534A   ti U+63D0    xing U+9192   *)
(*   jiao U+53EB  tong U+901A  zhi U+77E5   fa U+53D1    song U+9001   *)
(*   wo U+6211    ni U+4F60    he U+4ED6    she U+5979   fen U+5206    *)
(*   zhong U+949F xiao U+5C0F  shi U+65F6   yi U+4EE5    zhi1 U+4E4B   *)
(*   ge U+4E2A    ke U+523B    tou U+5934   colon2 U+FF1A              *)
(*   comma2 U+FF0C  comma3 U+3001                                      *)
(*   n0 U+96F6  n00 U+3007  n1 U+4E00  n2 U+4E8C  n2b U+4E24           *)
(*   n3 U+4E09  n4 U+56DB  n5 U+4E94  n6 U+516D  n7 U+4E03  n8 U+516B  *)
(*   n9 U+4E5D  n10 U+5341                                             *)
(*   chi U+5403  yao U+836F  heshui U+559D  shui U+6C34                *)
(* Instants the parser returns are pairs <<minute, millisecond>>:      *)
(* minutes since the epoch and milliseconds within the minute, Python's*)
(* integers being unbounded. The host's time zone is UTC.              *)
(* ------------------------------------------------------------------ *)
\* _clamp_int bounds used by the parser
MaxHour == 23
MaxMinute == 59
MaxDays == 365
MaxHours == 168
MaxMins == 10080

\* _clamp_int without its bounds
ClampIntOff(n, lo, hi) == n

\* _clamp_int(n, min_v, max_v)
ClampInt(n, lo, hi) == IF n < lo THEN lo ELSE IF n > hi THEN hi ELSE n

Digit == [c \in {"0", "1", "2", "3", "4", "5", "6", "7", "8", "9"} |->
            CASE c = "0" -> 0 [] c = "1" -> 1 [] c = "2" -> 2 [] c = "3" -> 3
              [] c = "4" -> 4 [] c = "5" -> 5 [] c = "6" -> 6 [] c = "7" -> 7
              [] c = "8" -> 8 [] c = "9" -> 9]
IsDigit(c) == c \in DOMAIN Digit
IsSpace(c) == c = " "

\* _parse_cn_number: mapping
CnDigit == [c \in {"n0", "n00", "n1", "n2", "n2b", "n3", "n4", "n5", "n6",
                   "n7", "n8", "n9"} |->
              CASE c = "n0" -> 0 [] c = "n00" -> 0 [] c = "n1" -> 1 [] c = "n2" -> 2
                [] c = "n2b" -> 2 [] c = "n3" -> 3 [] c = "n4" -> 4 [] c = "n5" -> 5
                [] c = "n6" -> 6 [] c = "n7" -> 7 [] c = "n8" -> 8 [] c = "n9" -> 9]
\* the characters of [零〇一二两三四五六七八九十] in the regular expressions
IsCnNumeral(c) == c \in DOMAIN CnDigit \/ c = "n10"

\* the number of characters from position i on that are in the set S, at most n
RECURSIVE RunAt(_, _, _, _)
RunAt(s, i, n, S) ==
    IF n > 0 /\ i >= 1 /\ i <= Len(s) /\ s[i] \in S
    THEN 1 + RunAt(s, i + 1, n - 1, S)
    ELSE 0
DigitsAt(s, i, n) == RunAt(s, i, n, DOMAIN Digit)
SpacesAt(s, i) == RunAt(s, i, Len(s), {" "})

\* does the literal lit stand at position i of s?
At(s, i, lit) ==
    /\ i >= 1 /\ i + Len(lit) - 1 <= Len(s)
    /\ \A k \in 1..Len(lit) : s[i + k - 1] = lit[k]

\* int() of a string of digits
RECURSIVE IntOf(_)
IntOf(s) == IF s = <<>> THEN 0 ELSE 10 * IntOf(SubSeq(s, 1, Len(s) - 1)) + Digit[s[Len(s)]]

\* _parse_cn_number: the loop over the characters (Absent for None)
RECURSIVE CnLoop(_, _, _)
CnLoop(s, total, cur) ==
    IF s = <<>> THEN total + cur
    ELSE IF Head(s) = "n10"
    THEN CnLoop(Tail(s), total + (IF cur = 0 THEN 1 ELSE cur) * 10, 0)
    ELSE IF Head(s) \notin DOMAIN CnDigit THEN Absent
    ELSE CnLoop(Tail(s), total, cur + CnDigit[Head(s)])

\* (mutant) _parse_cn_number passing over the characters it does not know
ParseCnNumberLoose(text) ==
    LET s == SelectSeq(Strip(text), IsCnNumeral) IN
    IF Strip(text) = <<>> THEN Absent
    ELSE IF \A k \in DOMAIN Strip(text) : IsDigit(Strip(text)[k]) THEN IntOf(Strip(text))
    ELSE CnLoop(s, 0, 0)

\* _parse_cn_number(text)
ParseCnNumber(text) ==
    LET s == Strip(text) IN
    IF s = <<>> THEN Absent
    ELSE IF \A k \in DOMAIN s : IsDigit(s[k]) THEN IntOf(s)
    ELSE CnLoop(s, 0, 0)

\* _strip_mentions: re.sub(r"@\d+", " ", t)
RECURSIVE DropMentions(_)
DropMentions(s) ==
    IF s = <<>> THEN <<>>
    ELSE IF Head(s) = "@" /\ DigitsAt(s, 2, Len(s)) > 0
    THEN <<" ">> \o DropMentions(SubSeq(s, 2 + DigitsAt(s, 2, Len(s)), Len(s)))
    ELSE <<Head(s)>> \o DropMentions(Tail(s))

\* _strip_mentions: re.sub(r"\s+", " ", t)
RECURSIVE CollapseSpaces(_)
CollapseSpaces(s) ==
    IF s = <<>> THEN <<>>
    ELSE IF IsSpace(Head(s)) THEN <<" ">> \o CollapseSpaces(LStrip(s))
    ELSE <<Head(s)>> \o CollapseSpaces(Tail(s))

\* _strip_mentions(text)
StripMentions(text) == Strip(CollapseSpaces(DropMentions(text)))

\* _parse_hm(text): ^(\d{1,2})(?:[:(colon2)(dian)](\d{1,2}))?$ (<<>> for None)
ParseHm(text) ==
    LET s == Strip(text)
        k == DigitsAt(s, 1, 2)
        j == DigitsAt(s, k + 2, 2)
        hour == ClampInt(IntOf(SubSeq(s, 1, k)), 0, MaxHour)
    IN  IF k = 0 THEN <<>>
        ELSE IF Len(s) = k THEN <<hour, 0>>
        ELSE IF s[k + 1] \in {":", "colon2", "dian"} /\ j >= 1 /\ Len(s) = k + 1 + j
        THEN <<hour, ClampInt(IntOf(SubSeq(s, k + 2, k + 1 + j)), 0, MaxMinute)>>
        ELSE <<>>

\* _parse_time_token(text): the forms m1 (HH:MM), m2 (HH dian ban), m3
\* (HH dian MM), m4 (HH dian), else _parse_hm
\* the patterns m1..m4 on the stripped token s: k digits of the hour, the
\* separator at a, j digits of the minute from b
TokenEnd(s, k, a, b, j) ==
    LET hour == ClampInt(IntOf(SubSeq(s, 1, k)), 0, MaxHour)
        minute == ClampInt(IntOf(SubSeq(s, b, b + j - 1)), 0, MaxMinute)
        sep == k >= 1 /\ a <= Len(s)
    IN  IF sep /\ s[a] \in {":", "colon2"} /\ j >= 1 /\ b + j - 1 = Len(s)
        THEN <<hour, minute>>
        ELSE IF sep /\ s[a] = "dian" /\ b = Len(s) /\ s[b] = "ban"
        THEN <<hour, 30>>
        ELSE IF sep /\ s[a] = "dian" /\ j >= 1 /\ b + j - 1 = Len(s)
        THEN <<hour, minute>>
        ELSE IF k >= 1 /\ a = Len(s) /\ s[a] = "dian"
        THEN <<hour, 0>>
        ELSE ParseHm(s)
TokenMinute(s, k, a, b) == TokenEnd(s, k, a, b, DigitsAt(s, b, 2))
TokenSep(s, k, a) == TokenMinute(s, k, a, a + 1 + SpacesAt(s, a + 1))
TokenHour(s, k) == TokenSep(s, k, k + 1 + SpacesAt(s, k + 1))
TimeTokenOf(s) == IF s = <<>> THEN <<>> ELSE TokenHour(s, DigitsAt(s, 1, 2))
ParseTimeToken(text) == TimeTokenOf(Strip(text))

\* an epoch time in milliseconds as <<minute, millisecond>>
MinuteMs == 60 * 1000
DayMin == 24 * 60
InstantOf(ms) == <<ms \div MinuteMs, ms % MinuteMs>>
\* a <= b on instants
NotAfter(a, b) == a[1] < b[1] \/ (a[1] = b[1] /\ a[2] <= b[2])

\* _compute_next_time without the step to the next day
ComputeNextTimeNoRoll(dayHint, hour, minute, nowMs) ==
    LET base == (InstantOf(nowMs)[1] \div DayMin) * DayMin + hour * 60 + minute
    IN  IF dayHint = "tomorrow" THEN <<base + DayMin, 0>>
        ELSE IF dayHint = "day_after_tomorrow" THEN <<base + 2 * DayMin, 0>>
        ELSE <<base, 0>>

\* _compute_next_time(day_hint, hour, minute, now_ms): the clock time on the
\* day of now, moved by the hint, or rolled to the next day when there is no
\* hint and the time has passed
ComputeNextTime(dayHint, hour, minute, nowMs) ==
    LET nowI == InstantOf(nowMs)
        base == (nowI[1] \div DayMin) * DayMin + hour * 60 + minute
        hinted == IF dayHint = "tomorrow" THEN base + DayMin
                  ELSE IF dayHint = "day_after_tomorrow" THEN base + 2 * DayMin
                  ELSE base
    IN  IF dayHint = None /\ NotAfter(<<hinted, 0>>, nowI)
        THEN <<hinted + DayMin, 0>>
        ELSE <<hinted, 0>>

\* the day hint of a hint word (group 1 of the clock-time patterns)
DayHintOf(hintRaw) ==
    IF hintRaw = <<"ming", "tian">> THEN "tomorrow"
    ELSE IF hintRaw = <<"hou", "tian">> THEN "day_after_tomorrow"
    ELSE IF hintRaw = <<"jin", "tian">> THEN "today"
    ELSE IF hintRaw # <<>> THEN "today"
    ELSE None

\* (?:ti xing|jiao|tong zhi|fa|fa song), in the order of the alternation
Triggers == << <<"ti", "xing">>, <<"jiao">>, <<"tong", "zhi">>, <<"fa">>,
               <<"fa", "song">> >>
\* the words that may follow the trigger, per pattern
MultiTargets == << <<"wo">>, <<"ni">>, <<"t", "a">>, <<"he">>, <<"she">> >>
DelayTargets == << <<"wo">>, <<"ni">> >>
ClockTargets == << <<"wo">> >>
\* (jin tian|ming tian|hou tian|jin wan)
HintWords == << <<"jin", "tian">>, <<"ming", "tian">>, <<"hou", "tian">>,
                <<"jin", "wan">> >>

\* the first word of the alternation ws that stands at position i (<<>> if none)
WordAt(s, i, ws) ==
    LET K == {k \in DOMAIN ws : At(s, i, ws[k])}
    IN  IF K = {} THEN <<>> ELSE ws[Min(K)]

\* \s*(.+)$ from position x: where the last group starts (0: no match); the
\* white space is given back one character at a time when nothing follows it
RestAt(s, x) ==
    LET w == x + SpacesAt(s, x)
    IN  IF w <= Len(s) THEN w ELSE IF SpacesAt(s, x) > 0 THEN Len(s) ELSE 0

\* (?:target)?\s*(.+)$ from position v: with the target word, else without
AfterTrigger(s, v, targets) ==
    LET t == WordAt(s, v, targets)
    IN  IF t # <<>> /\ RestAt(s, v + Len(t)) # 0
        THEN RestAt(s, v + Len(t))
        ELSE RestAt(s, v)

\* (?:trigger)(?:target)?\s*(.+)$ from position u: where the message starts
\* (0: no match), the trigger words tried in their order
TailAt(s, u, targets) ==
    LET K == {k \in DOMAIN Triggers :
                /\ At(s, u, Triggers[k])
                /\ AfterTrigger(s, u + Len(Triggers[k]), targets) # 0}
    IN  IF K = {} THEN 0
        ELSE AfterTrigger(s, u + Len(Triggers[Min(K)]), targets)

\* hi, hi-1, .., lo
Down(hi, lo) == [k \in 1..(hi - lo + 1) |-> hi - k + 1]

RECURSIVE ConcatAll(_)
ConcatAll(ss) == IF ss = <<>> THEN <<>> ELSE Head(ss) \o ConcatAll(Tail(ss))

\* (hint)?\s* from position p: the positions where the next group may start,
\* with the hint word taken, in the order the matcher tries them
HintStarts(s, p) ==
    LET h == WordAt(s, p, HintWords)
        with == IF h = <<>> THEN <<>>
                ELSE [k \in 1..(SpacesAt(s, p + 2) + 1) |->
                        [q |-> Down(p + 2 + SpacesAt(s, p + 2), p + 2)[k], hint |-> h]]
        without == [k \in 1..(SpacesAt(s, p) + 1) |->
                      [q |-> Down(p + SpacesAt(s, p), p)[k], hint |-> <<>>]]
    IN  with \o without

\* ^(?:zai\s*)?(hint)?\s* : all starts of the next group, in matching order
PrefixStarts(s) ==
    LET zai == IF At(s, 1, <<"zai">>) THEN Down(2 + SpacesAt(s, 2), 2) ELSE <<>>
        ps == zai \o <<1>>
    IN  ConcatAll([k \in DOMAIN ps |-> HintStarts(s, ps[k])])

NoMatch == [ok |-> FALSE]

\* the pattern of _parse_multi_absolute_reminder on t: the hint, the times
\* (lazy: the shortest run of characters before a trigger) and the message
MatchMulti(s) ==
    LET C == PrefixStarts(s)
        End(q) == LET E == {e \in (q + 1)..Len(s) :
                               TailAt(s, e + SpacesAt(s, e), MultiTargets) # 0}
                  IN  IF E = {} THEN 0 ELSE Min(E)
        good == {k \in DOMAIN C : End(C[k].q) # 0}
    IN  IF good = {} THEN NoMatch
        ELSE LET c == C[Min(good)]
                 e == End(c.q)
             IN  [ok |-> TRUE, hint |-> c.hint, times |-> SubSeq(s, c.q, e - 1),
                  msg |-> SubSeq(s, TailAt(s, e + SpacesAt(s, e), MultiTargets), Len(s))]

\* re.split(r"[,\s]+") after the other commas have become ",": the non-empty
\* parts
RECURSIVE SplitParts(_)
SplitParts(s) ==
    LET Sep == {",", " ", "comma2", "comma3"}
        lead == RunAt(s, 1, Len(s), Sep)
        rest == SubSeq(s, lead + 1, Len(s))
        K == {k \in DOMAIN rest : rest[k] \in Sep}
        n == IF K = {} THEN Len(rest) ELSE Min(K) - 1
    IN  IF rest = <<>> THEN <<>>
        ELSE <<SubSeq(rest, 1, n)>> \o SplitParts(SubSeq(rest, n + 1, Len(rest)))

\* sorted(uniq.values()): the instants of a set in ascending order, with msg
SortedDue(D, msg) ==
    [k \in 1..Cardinality(D) |->
        <<CHOOSE d \in D : Cardinality({x \in D : NotAfter(x, d)}) = k, msg>>]

\* _parse_multi_absolute_reminder(text, now_ms) (<<>> for None)
\* the steps after the match m: the instants that lie in the future, two at
\* least; the parts of the times, two at least; the empty times or message
\* (mutant) one future instant is enough for the multi-time stage
MultiFutureOne(future, msg) ==
    IF Cardinality(future) >= 1 THEN SortedDue(future, msg) ELSE <<>>
MultiFuture(future, msg) ==
    IF Cardinality(future) >= 2 THEN SortedDue(future, msg) ELSE <<>>
MultiDue(parts, dayHint, msg, nowMs) ==
    LET hms == {ParseTimeToken(parts[k]) : k \in DOMAIN parts} \ {<<>>}
        dues == {ComputeNextTime(dayHint, hm[1], hm[2], nowMs) : hm \in hms}
    IN  IF Len(parts) < 2 THEN <<>>
        ELSE MultiFuture({d \in dues : ~NotAfter(d, InstantOf(nowMs))}, msg)
MultiParts(timesRaw, msg, dayHint, nowMs) ==
    IF timesRaw = <<>> \/ msg = <<>> THEN <<>>
    ELSE MultiDue(SplitParts(timesRaw), dayHint, msg, nowMs)
MultiResult(m, nowMs) ==
    IF ~m.ok THEN <<>>
    ELSE MultiParts(Strip(m.times), StripMentions(m.msg), DayHintOf(Strip(m.hint)), nowMs)
ParseMultiAbsoluteReminder(text, nowMs) ==
    MultiResult(MatchMulti(StripMentions(text)), nowMs)

\* str(n) for 0 <= n < 10^9
DigitChar(n) ==
    CASE n = 0 -> "0" [] n = 1 -> "1" [] n = 2 -> "2" [] n = 3 -> "3" [] n = 4 -> "4"
      [] n = 5 -> "5" [] n = 6 -> "6" [] n = 7 -> "7" [] n = 8 -> "8" [] n = 9 -> "9"
DigitsFrom(n, unit) ==
    [k \in 1..unit |->
        DigitChar((n \div (CASE unit - k = 0 -> 1 [] unit - k = 1 -> 10
                             [] unit - k = 2 -> 100 [] unit - k = 3 -> 1000
                             [] unit - k = 4 -> 10000 [] unit - k = 5 -> 100000
                             [] unit - k = 6 -> 1000000 [] unit - k = 7 -> 10000000
                             [] unit - k = 8 -> 100000000)) % 10)]
DigitsOf(n) ==
    DigitsFrom(n, IF n < 10 THEN 1 ELSE IF n < 100 THEN 2 ELSE IF n < 1000 THEN 3
                  ELSE IF n < 10000 THEN 4 ELSE IF n < 100000 THEN 5
                  ELSE IF n < 1000000 THEN 6 ELSE IF n < 10000000 THEN 7
                  ELSE IF n < 100000000 THEN 8 ELSE 9)

\* (?:xiao shi|zhong tou)
HourWords == << <<"xiao", "shi">>, <<"zhong", "tou">> >>
Minutes(n) == DigitsOf(n) \o <<"fen", "zhong">>

\* the length of the numeral \d+|[cn]+ at position i (0 if none)
NumeralAt(s, i) ==
    IF DigitsAt(s, i, Len(s)) > 0 THEN DigitsAt(s, i, Len(s))
    ELSE RunAt(s, i, Len(s), DOMAIN CnDigit \cup {"n10"})

\* (?:ban\s*ge\s*|ban\s*)(?:xiao shi|zhong tou) at position i: the length of
\* the match (0 if none)
HalfHourAt(s, i) ==
    LET a == i + 1 + SpacesAt(s, i + 1)
        b == a + 1 + SpacesAt(s, a + 1)
    IN  IF ~At(s, i, <<"ban">>) THEN 0
        ELSE IF At(s, a, <<"ge">>) /\ WordAt(s, b, HourWords) # <<>> THEN b + 2 - i
        ELSE IF WordAt(s, a, HourWords) # <<>> THEN a + 2 - i
        ELSE 0

\* (?:n\s*ke\s*zhong) at position i for the numeral character n
QuarterAt(s, i, n) ==
    LET a == i + 1 + SpacesAt(s, i + 1)
        b == a + 1 + SpacesAt(s, a + 1)
    IN  IF At(s, i, <<n>>) /\ At(s, a, <<"ke">>) /\ At(s, b, <<"zhong">>)
        THEN b + 1 - i ELSE 0

\* (?P<n>numeral)\s*(?:ge)?\s*ban\s*(?:xiao shi|zhong tou) at position i
NAndHalfAt(s, i) ==
    LET n == NumeralAt(s, i)
        a == i + n + SpacesAt(s, i + n)
        b == IF At(s, a, <<"ge">>) THEN a + 1 + SpacesAt(s, a + 1) ELSE a
        c == b + 1 + SpacesAt(s, b + 1)
    IN  IF n > 0 /\ At(s, b, <<"ban">>) /\ WordAt(s, c, HourWords) # <<>>
        THEN c + 2 - i ELSE 0

\* (?P<n>numeral)\s*(?:xiao shi|zhong tou)\s*ban at position i
NHoursHalfAt(s, i) ==
    LET n == NumeralAt(s, i)
        a == i + n + SpacesAt(s, i + n)
        b == a + 2 + SpacesAt(s, a + 2)
    IN  IF n > 0 /\ WordAt(s, a, HourWords) # <<>> /\ At(s, b, <<"ban">>)
        THEN b + 1 - i ELSE 0

\* repl_one_and_half: the numeral at the head of the match m, as minutes
ReplOneAndHalf(m) ==
    LET n == ParseCnNumber(SubSeq(m, 1, NumeralAt(m, 1)))
    IN  IF n = Absent THEN m ELSE Minutes(n * 60 + 30)

\* re.sub of one pattern of _rewrite_duration_phrases over s: pass 1 the half
\* hour, 2..4 the quarters, 5 and 6 the hours and a half
RECURSIVE SubPass(_, _)
RECURSIVE SubStep(_, _, _)
SubPass(pass, s) ==
    SubStep(pass, s,
            IF s = <<>> THEN 0
            ELSE CASE pass = 1 -> HalfHourAt(s, 1)
                   [] pass = 2 -> QuarterAt(s, 1, "n1")
                   [] pass = 3 -> QuarterAt(s, 1, "n2b")
                   [] pass = 4 -> QuarterAt(s, 1, "n3")
                   [] pass = 5 -> NAndHalfAt(s, 1)
                   [] pass = 6 -> NHoursHalfAt(s, 1))
SubStep(pass, s, n) ==
    IF s = <<>> THEN <<>>
    ELSE IF n > 0
    THEN (CASE pass = 1 -> Minutes(30)
            [] pass = 2 -> Minutes(15)
            [] pass = 3 -> Minutes(30)
            [] pass = 4 -> Minutes(45)
            [] pass \in {5, 6} -> ReplOneAndHalf(SubSeq(s, 1, n)))
         \o SubPass(pass, SubSeq(s, n + 1, Len(s)))
    ELSE <<Head(s)>> \o SubPass(pass, Tail(s))

\* _rewrite_duration_phrases(text)
RECURSIVE RewriteFrom(_, _)
RewriteFrom(pass, s) == IF pass > 6 THEN s ELSE RewriteFrom(pass + 1, SubPass(pass, s))
RewriteDurationPhrases(text) == RewriteFrom(1, text)

\* the letters of the units, re.IGNORECASE
Lower(c) ==
    CASE c = "D" -> "d" [] c = "H" -> "h" [] c = "M" -> "m" [] c = "I" -> "i"
      [] c = "N" -> "n" [] OTHER -> c
AtLower(s, i, lit) ==
    /\ i >= 1 /\ i + Len(lit) - 1 <= Len(s)
    /\ \A k \in 1..Len(lit) : Lower(s[i + k - 1]) = lit[k]

\* the units of the three groups of the delay pattern, in their order
DayUnits == << <<"tian">>, <<"d">> >>
HourUnits == << <<"xiao", "shi">>, <<"h">> >>
MinUnits == << <<"fen", "zhong">>, <<"fen">>, <<"m", "i", "n">>, <<"m">> >>
\* (?:hou|yi hou|zhi1 hou)
AfterWords == << <<"hou">>, <<"yi", "hou">>, <<"zhi1", "hou">> >>

\* (?:(numeral)\s*(?:units))? at position p: the numeral and the positions
\* after each unit that matches, in the order of the alternation
UnitGroup(s, p, units) ==
    LET n == NumeralAt(s, p)
        u == p + n + SpacesAt(s, p + n)
        K == {k \in DOMAIN units : AtLower(s, u, units[k])}
        ks == [j \in 1..Cardinality(K) |->
                 CHOOSE k \in K : Cardinality({x \in K : x <= k}) = j]
    IN  IF n = 0 THEN [raw |-> <<>>, ends |-> <<>>]
        ELSE [raw |-> SubSeq(s, p, p + n - 1),
              ends |-> [j \in DOMAIN ks |-> u + Len(units[ks[j]])]]

\* \s*(?:after)\s*(?:(?:trigger)(?:wo|ni)?\s*)?(.+)$ from position x: where the
\* message starts (0: no match)
AfterAt(s, x) ==
    LET y == x + SpacesAt(s, x)
        w == WordAt(s, y, AfterWords)
        z == y + Len(w)
    IN  IF w = <<>> THEN 0
        ELSE IF TailAt(s, z + SpacesAt(s, z), DelayTargets) # 0
        THEN TailAt(s, z + SpacesAt(s, z), DelayTargets)
        ELSE RestAt(s, z)

\* the three groups and the rest of the delay pattern from position p; a group
\* is taken whenever it stands there, the unit of the minutes the first one
\* after which the rest matches
\* a group counts when its unit stands there; the next group starts after
\* it and the spaces
GroupRaw(g) == IF g.ends = <<>> THEN <<>> ELSE g.raw
GroupEnd(s, g, p) == IF g.ends = <<>> THEN p + SpacesAt(s, p)
                     ELSE g.ends[1] + SpacesAt(s, g.ends[1])
DelayEnd(s, d, h, m, J, p) ==
    IF J # {}
    THEN [ok |-> TRUE, days |-> GroupRaw(d), hours |-> GroupRaw(h), mins |-> m.raw,
          msg |-> SubSeq(s, AfterAt(s, m.ends[Min(J)]), Len(s))]
    ELSE IF AfterAt(s, p) # 0
    THEN [ok |-> TRUE, days |-> GroupRaw(d), hours |-> GroupRaw(h), mins |-> <<>>,
          msg |-> SubSeq(s, AfterAt(s, p), Len(s))]
    ELSE NoMatch
DelayRest(s, d, h, m, p) ==
    DelayEnd(s, d, h, m, {j \in DOMAIN m.ends : AfterAt(s, m.ends[j]) # 0}, p)
DelayMinsAt(s, d, h, p) ==
    DelayRest(s, d, h, UnitGroup(s, GroupEnd(s, h, p), MinUnits), GroupEnd(s, h, p))
DelayHoursAt(s, d, p) ==
    DelayMinsAt(s, d, UnitGroup(s, GroupEnd(s, d, p), HourUnits), GroupEnd(s, d, p))
DelayBody(s, p) == DelayHoursAt(s, UnitGroup(s, p, DayUnits), p)

\* ^(?:(?:trigger)(?:wo|ni)?\s*)? : the positions where the groups may start,
\* in matching order
DelayStarts(s) ==
    LET after(k) ==
            LET v == 1 + Len(Triggers[k])
                t == WordAt(s, v, DelayTargets)
            IN  IF ~At(s, 1, Triggers[k]) THEN <<>>
                ELSE (IF t = <<>> THEN <<>>
                      ELSE Down(v + Len(t) + SpacesAt(s, v + Len(t)), v + Len(t)))
                     \o Down(v + SpacesAt(s, v), v)
    IN  ConcatAll([k \in DOMAIN Triggers |-> after(k)]) \o <<1>>

\* the pattern r1 of _parse_delay_reminder on t (r2 matches nothing r1 does
\* not, and captures the same groups)
\* the first start, in matching order, from which the body matches
OrElse(m, other) == IF m.ok THEN m ELSE other
RECURSIVE FirstDelay(_, _)
FirstDelay(s, C) ==
    IF C = <<>> THEN NoMatch
    ELSE OrElse(DelayBody(s, Head(C)), FirstDelay(s, Tail(C)))
MatchDelay(s) == FirstDelay(s, DelayStarts(s))

\* _clamp_int(_parse_cn_number(raw) or 0, 0, hi) if raw else 0
Amount(raw, hi) ==
    IF Strip(raw) = <<>> THEN 0
    ELSE LET n == ParseCnNumber(Strip(raw))
         IN  ClampInt(IF n = Absent THEN 0 ELSE n, 0, hi)

\* _parse_delay_reminder(text, now_ms) (<<>> for None)
\* the steps after the match m: the clamped amounts, the stripped message
DelayDue(days, hours, mins, msg, nowI) ==
    IF days = 0 /\ hours = 0 /\ mins = 0 THEN <<>>
    ELSE IF msg = <<>> THEN <<>>
    ELSE << <<nowI[1] + days * 24 * 60 + hours * 60 + mins, nowI[2]>>, msg >>
DelayResult(m, nowMs) ==
    IF ~m.ok THEN <<>>
    ELSE DelayDue(Amount(m.days, MaxDays), Amount(m.hours, MaxHours),
                  Amount(m.mins, MaxMins), StripMentions(m.msg), InstantOf(nowMs))
ParseDelayReminder(text, nowMs) ==
    DelayResult(MatchDelay(RewriteDurationPhrases(StripMentions(text))), nowMs)

\* datetime(year, month, day): the days of the month, and the day's number
\* since 1970-01-01
IsLeap(y) == (y % 4 = 0 /\ y % 100 # 0) \/ y % 400 = 0
DaysInMonth(y, m) ==
    IF m = 2 THEN (IF IsLeap(y) THEN 29 ELSE 28)
    ELSE IF m \in {4, 6, 9, 11} THEN 30 ELSE 31
DaysFromCivil(y, m, d) ==
    LET yy == IF m <= 2 THEN y - 1 ELSE y
        era == yy \div 400
        yoe == yy - era * 400
        mp == IF m > 2 THEN m - 3 ELSE m + 9
        doy == (153 * mp + 2) \div 5 + d - 1
        doe == yoe * 365 + yoe \div 4 - yoe \div 100 + doy
    IN  era * 146097 + doe - 719468

\* the pattern m_dt of _parse_absolute_reminder on t: YYYY-MM-DD HH:MM, a
\* trigger and the message
MatchDate(s) ==
    LET Sep == {"-", "/"}
        k1 == DigitsAt(s, 6, 2)
        a == 6 + k1
        k2 == DigitsAt(s, a + 1, 2)
        b == a + 1 + k2
        sp == SpacesAt(s, b)
        c == b + sp
        k3 == DigitsAt(s, c, 2)
        e == c + k3
        k4 == DigitsAt(s, e + 1, 2)
        f == e + 1 + k4
        w == TailAt(s, f + SpacesAt(s, f), ClockTargets)
    IN  IF /\ DigitsAt(s, 1, 4) = 4 /\ Len(s) >= 5 /\ s[5] \in Sep
           /\ k1 >= 1 /\ a <= Len(s) /\ s[a] \in Sep
           /\ k2 >= 1 /\ sp >= 1 /\ k3 >= 1
           /\ e <= Len(s) /\ s[e] \in {":", "colon2"} /\ k4 >= 1
           /\ w # 0
        THEN [ok |-> TRUE, year |-> SubSeq(s, 1, 4), month |-> SubSeq(s, 6, a - 1),
              day |-> SubSeq(s, a + 1, b - 1), hour |-> SubSeq(s, c, e - 1),
              minute |-> SubSeq(s, e + 1, f - 1), msg |-> SubSeq(s, w, Len(s))]
        ELSE NoMatch

\* the pattern m_hm of _parse_absolute_reminder on t: the hint, the clock time
\* \d{1,2}(?:[:(colon2)(dian)]\d{1,2})? and the message
MatchClock(s) ==
    LET C == PrefixStarts(s)
        k(q) == DigitsAt(s, q, 2)
        j(q) == IF q + k(q) <= Len(s) /\ s[q + k(q)] \in {":", "colon2", "dian"}
                THEN DigitsAt(s, q + k(q) + 1, 2) ELSE 0
        Tail1(e) == TailAt(s, e + SpacesAt(s, e), ClockTargets)
        long(q) == q + k(q) + 1 + j(q)
        short(q) == q + k(q)
        End(q) == IF k(q) = 0 THEN 0
                  ELSE IF j(q) >= 1 /\ Tail1(long(q)) # 0 THEN long(q)
                  ELSE IF Tail1(short(q)) # 0 THEN short(q)
                  ELSE 0
        good == {n \in DOMAIN C : End(C[n].q) # 0}
    IN  IF good = {} THEN NoMatch
        ELSE LET c == C[Min(good)]
             IN  [ok |-> TRUE, hint |-> c.hint, hm |-> SubSeq(s, c.q, End(c.q) - 1),
                  msg |-> SubSeq(s, Tail1(End(c.q)), Len(s))]

\* _parse_absolute_reminder(text, now_ms) (<<>> for None)
\* due <= now_ms: None; the branch of the date pattern md, then the branch
\* of the clock pattern mh
\* (mutant) the absolute stage without its test due <= now_ms
LaterOrNot(due, msg, nowMs) == <<due, msg>>
Later(due, msg, nowMs) ==
    IF NotAfter(due, InstantOf(nowMs)) THEN <<>> ELSE <<due, msg>>
DateDue(year, month, day, hour, minute, msg, nowMs) ==
    IF msg = <<>> THEN <<>>
    ELSE IF year < 1 \/ day > DaysInMonth(year, month) THEN <<>>
    ELSE Later(<<DaysFromCivil(year, month, day) * DayMin + hour * 60 + minute, 0>>,
               msg, nowMs)
DateResult(md, nowMs) ==
    DateDue(IntOf(md.year), ClampInt(IntOf(md.month), 1, 12),
            ClampInt(IntOf(md.day), 1, 31), ClampInt(IntOf(md.hour), 0, MaxHour),
            ClampInt(IntOf(md.minute), 0, MaxMinute), StripMentions(md.msg), nowMs)
ClockDue(dayHint, hm, msg, nowMs) ==
    IF hm = <<>> \/ msg = <<>> THEN <<>>
    ELSE Later(ComputeNextTime(dayHint, hm[1], hm[2], nowMs), msg, nowMs)
ClockResult(mh, nowMs) ==
    IF ~mh.ok THEN <<>>
    ELSE ClockDue(DayHintOf(Strip(mh.hint)), ParseHm(Strip(mh.hm)),
                  StripMentions(mh.msg), nowMs)
AbsoluteResult(md, t, nowMs) ==
    IF md.ok THEN DateResult(md, nowMs) ELSE ClockResult(MatchClock(t), nowMs)
AbsoluteOf(t, nowMs) == AbsoluteResult(MatchDate(t), t, nowMs)
ParseAbsoluteReminder(text, nowMs) == AbsoluteOf(StripMentions(text), nowMs)

\* parse_reminder_requests(text, now_ms): the list of (due, message) pairs
\* (<<>> for None)
\* x or other; [one] if one else None
Truthy(x, other) == IF x # <<>> THEN x ELSE other
ListOf(one) == IF one # <<>> THEN <<one>> ELSE <<>>
ParseReminderRequests(text, nowMs) ==
    Truthy(ParseMultiAbsoluteReminder(text, nowMs),
           ListOf(Truthy(ParseDelayReminder(text, nowMs),
                         ParseAbsoluteReminder(text, nowMs))))

(* ------------------------------------------------------------------ *)
(* parse_reminder_requests called at different times of one day.       *)
(* ------------------------------------------------------------------ *)
\* the day of the calls, in days since the epoch
ParseDay == 3
DayMs == DayMin * MinuteMs
ClockMs(h, m, sec, ms) == ParseDay * DayMs + (h * 60 + m) * MinuteMs + sec * 1000 + ms
\* now_ms: early morning, on the hour, mid-morning, late evening
ParseTimes == {ClockMs(7, 0, 0, 0), ClockMs(8, 0, 0, 0), ClockMs(8, 30, 0, 0),
               ClockMs(10, 0, 0, 0), ClockMs(23, 0, 0, 0), ClockMs(23, 0, 30, 0),
               ClockMs(23, 50, 12, 345)}

Water == <<"heshui", "shui">>
Pills == <<"chi", "yao">>
RemindMe == <<"ti", "xing", "wo", " ">>
NoHint == <<>>
TwoDigits(n) == IF n < 10 THEN <<"0">> \o DigitsOf(n) ELSE DigitsOf(n)

\* "zai <hint> A dian,B dian ti xing wo  chi yao": two clock times in one request
MultiReq(hint, a, b) ==
    <<"zai">> \o hint \o DigitsOf(a) \o <<"dian", ",">> \o DigitsOf(b) \o <<"dian">>
      \o RemindMe \o Pills
\* "<hint>HH:MM ti xing wo  he shui": one clock time
ClockReq(hint, h, m) ==
    hint \o DigitsOf(h) \o <<":">> \o TwoDigits(m) \o RemindMe \o Water
\* "<d> tian <h> xiao shi <m> fen zhong hou ti xing wo  he shui": a delay, a
\* part that is Absent left out
DelayReq(d, h, m) ==
    (IF d = Absent THEN <<>> ELSE DigitsOf(d) \o <<"tian">>)
      \o (IF h = Absent THEN <<>> ELSE DigitsOf(h) \o <<"xiao", "shi">>)
      \o (IF m = Absent THEN <<>> ELSE DigitsOf(m) \o <<"fen", "zhong">>)
      \o <<"hou">> \o RemindMe \o Water

MultiHours == {<<8, 9>>, <<9, 8>>, <<8, 23>>}
MultiHints == {NoHint, <<"jin", "tian">>, <<"ming", "tian">>}
ClockHints == {NoHint, <<"jin", "tian">>, <<"jin", "wan">>, <<"ming", "tian">>,
               <<"hou", "tian">>}
ClockTimes == {<<8, 0>>, <<9, 5>>, <<23, 0>>, <<23, 50>>}
DelayDays == {Absent, 0, 1, MaxDays, MaxDays + 1, MaxDays + 35}
DelayHours == {Absent, 0, 2, MaxHours, MaxHours + 1, MaxHours + 32}
DelayMins == {Absent, 0, 5, MaxMins, MaxMins + 1, 2 * MaxMins}

\* one call of parse_reminder_requests(request, now_ms), logged; the parser
\* keeps no state, so a behaviour is one call
Parse(req) ==
    /\ last = NoCall
    /\ last' = [op |-> "parse", arg |-> req, ret |-> ParseReminderRequests(req, now)]
    /\ UNCHANGED <<env, file, locks, issued, procs>>

ParseMulti == \E x \in MultiHints, t \in MultiHours : Parse(MultiReq(x, t[1], t[2]))
ParseClock == \E x \in ClockHints, t \in ClockTimes : Parse(ClockReq(x, t[1], t[2]))
ParseDelay == \E d \in DelayDays, h \in DelayHours, m \in DelayMins : Parse(DelayReq(d, h, m))

ParseInit == \E t \in ParseTimes : InitAt(t)
ParseNext == ParseMulti \/ ParseClock \/ ParseDelay
ParseSpec == ParseInit /\ [][ParseNext]_vars

(* ------------------------------------------------------------------ *)
(* Properties of the request parser                                    *)
(* ------------------------------------------------------------------ *)
\* the instant of the clock time h:m on the day of now, moved by days
SameDay(h, m, days) == <<((now \div DayMs) + days) * DayMin + h * 60 + m, 0>>
NowI == InstantOf(now)

\* C17: a request naming two clock times without a day hint, parsed before the
\* earlier of them, gives one result per time on the same day, in ascending
\* order and with the shared message; parsed when both have passed that day, it
\* gives no result.
C17_MultiTimeSameDay ==
    \A t \in MultiHours :
        (last.op = "parse" /\ last.arg = MultiReq(NoHint, t[1], t[2])) =>
            LET lo == IF t[1] < t[2] THEN t[1] ELSE t[2]
                hi == IF t[1] < t[2] THEN t[2] ELSE t[1]
            IN  /\ ~NotAfter(SameDay(lo, 0, 0), NowI) =>
                     last.ret = << <<SameDay(lo, 0, 0), Pills>>,
                                   <<SameDay(hi, 0, 0), Pills>> >>
                /\ NotAfter(SameDay(hi, 0, 0), NowI) => last.ret = <<>>

\* C18: a request naming one clock time. Without a day hint the result is that
\* time today or, if that is not after now, exactly one day later: there is
\* always a result and it is after now. With a hint the time is on the hinted
\* day (today, +1, +2) and there is no result if that is not after now.
C18_ClockTimeRollover ==
    \A x \in ClockHints, t \in ClockTimes :
        (last.op = "parse" /\ last.arg = ClockReq(x, t[1], t[2])) =>
            LET days == IF x = <<"ming", "tian">> THEN 1
                        ELSE IF x = <<"hou", "tian">> THEN 2 ELSE 0
                at == SameDay(t[1], t[2], days)
            IN  IF x = NoHint
                THEN /\ Len(last.ret) = 1
                     /\ last.ret[1][2] = Water
                     /\ last.ret[1][1] = IF NotAfter(at, NowI)
                                         THEN SameDay(t[1], t[2], 1) ELSE at
                     /\ ~NotAfter(last.ret[1][1], NowI)
                ELSE last.ret = IF NotAfter(at, NowI) THEN <<>> ELSE << <<at, Water>> >>

\* C18 witness: 23:00 asked for at 23:50 without a hint is due the next day,
\* and asked for with the hint of today has no result
C18_Witness ==
    /\ now = ClockMs(23, 50, 12, 345)
    /\ last.op = "parse"
    /\ last.arg = ClockReq(NoHint, 23, 0)
    /\ last.ret = << <<SameDay(23, 0, 1), Water>> >>
    /\ ParseReminderRequests(ClockReq(<<"jin", "tian">>, 23, 0), now) = <<>>

\* now + ((min(d,365)*24 + min(h,168))*60 + min(m,10080)) minutes
AtMost(n, hi) == IF n = Absent THEN 0 ELSE IF n > hi THEN hi ELSE n
DelayedBy(d, h, m) ==
    <<NowI[1] + (AtMost(d, MaxDays) * 24 + AtMost(h, MaxHours)) * 60 + AtMost(m, MaxMins),
      NowI[2]>>

ErrRequired == "parameter error: chat_type / user_id required"
ErrRequest == "parameter error: request required (or due_at_ms + text)"
Guidance == "guidance: 1 fen zhong hou ti xing wo he shui / zai 20:30 ti xing wo ..."
Confirmed == "reminder set"
NoError == ""

\* an instant of the parser as the int of milliseconds the store keeps
MsOf(i) == i[1] * MinuteMs + i[2]

\* str(args.get(k) or "") of a string argument, None if it is missing
StrArg(x) == IF x = None THEN "" ELSE x
\* str(args.get(k) or "").strip() of a text argument
TextArg(x) == IF x = NoneSeq THEN <<>> ELSE Strip(x)

\* isinstance(due_at_ms, int) and text
Explicit(a) == a.due_at_ms # Absent /\ TextArg(a.text) # <<>>

\* reminder_create: parsed, the (due, message) pairs it is to store (nothing
\* is parsed once a check has failed)
\* the parsed instants in milliseconds
InMs(p) == [k \in DOMAIN p |-> <<MsOf(p[k][1]), p[k][2]>>]
ParsedOf(a, nowMs) ==
    IF Explicit(a) THEN << <<a.due_at_ms, TextArg(a.text)>> >>
    ELSE IF StrArg(a.chat_type) = "" \/ StrArg(a.user_id) = "" THEN <<>>
    ELSE IF TextArg(a.request) = <<>> THEN <<>>
    ELSE InMs(ParseReminderRequests(TextArg(a.request), nowMs))

\* reminder_create with the check of chat_type and user_id left out
ArgErrorLate(a, parsed) ==
    IF Explicit(a) THEN NoError
    ELSE IF TextArg(a.request) = <<>> THEN ErrRequest
    ELSE IF parsed = <<>> THEN Guidance
    ELSE NoError

\* reminder_create: what it returns before it stores anything (NoError if it
\* goes on to store), parsed being what the request gave
ArgError(a, parsed) ==
    IF StrArg(a.chat_type) = "" \/ StrArg(a.user_id) = "" THEN ErrRequired
    ELSE IF Explicit(a) THEN NoError
    ELSE IF TextArg(a.request) = <<>> THEN ErrRequest
    ELSE IF parsed = <<>> THEN Guidance
    ELSE NoError

\* reminder_create: the record it asks the store for, for one parsed pair
CreateOpts(a, pair) ==
    LET ctx == <<IF StrArg(a.chat_type) = "group" THEN "group" ELSE "private",
                 a.group_id>>
    IN  [ sourceMessageId |-> IF a.message_id = NoneSeq THEN NoneSeq
                              ELSE Strip(a.message_id),
          dueAtMs |-> pair[1], creatorUserId |-> StrArg(a.user_id),
          creatorChatType |-> ctx[1], creatorGroupId |-> ctx[2],
          target |-> IF StrArg(a.chat_type) = "private"
                     THEN [chatType |-> "private", to |-> StrArg(a.user_id)]
                     ELSE [chatType |-> "group",
                           to |-> IF a.group_id = None THEN "unknown" ELSE a.group_id],
          text |-> pair[2] ]

\* for due, msg in parsed: store.create({...}) with the ids uuid4 returns
RECURSIVE CreateAll(_, _, _, _, _)
CreateAll(recs, a, parsed, ids, clock) ==
    IF parsed = <<>> THEN [recs |-> recs, created |-> <<>>]
    ELSE LET res == Create(recs, CreateOpts(a, Head(parsed)), Head(ids), clock)
             rest == CreateAll(res.recs, a, Tail(parsed), Tail(ids), clock)
         IN  [recs |-> rest.recs, created |-> res.ret \o rest.created]

\* the arguments of the calls
ToolRequests == {NoneSeq, <<" ">>, Water, DelayReq(Absent, Absent, 5) \o <<" ">>,
                 MultiReq(NoHint, 8, 9)}
ToolArgs ==
    [ chat_type : {None, "private"}, user_id : {None, "u1"},
      group_id : {None}, message_id : {NoneSeq},
      request : ToolRequests, due_at_ms : {Absent, StartMs + TickMs},
      text : {NoneSeq, <<" ">>, <<"x">>} ]

\* reminder_create(args): the whole handler
ReminderCreate(A, I) ==
    /\ caller.pc = "idle"
    /\ \E a \in A :
       \E parsed \in {ParsedOf(a, now)} :
       \E err \in {ArgError(a, parsed)} :
       \E ids \in [1..(IF err = NoError THEN Len(parsed) ELSE 0) -> I \ issued] :
       \E res \in {CreateAll(file, a, IF err = NoError THEN parsed ELSE <<>>, ids, now)} :
         LET made == {res.created[k].id : k \in DOMAIN res.created} IN
         /\ \A j, k \in DOMAIN ids : j # k => ids[j] # ids[k]
         /\ Len(res.recs) <= MaxRecords
         /\ file' = res.recs
         /\ issued' = issued \cup (made \cap {ids[k] : k \in DOMAIN ids})
         /\ createdRet' = createdRet \cup made
         /\ last' = [op |-> "reminder_create", arg |-> a,
                     ret |-> IF err = NoError THEN Confirmed ELSE err]
    /\ UNCHANGED <<env, locks, mem, sched, caller, crashes, canceledRet, fails, more>>

ToolNext == ReminderCreate(ToolArgs, TwoIds)
ToolSpec == InitStore /\ [][ToolNext]_vars

ErrCancelRequired == "parameter error: user_id / reminder_id required"
NotFound == "no reminder found to cancel (give the reminder id)"
CancelDone == "reminder canceled"
NotLive == "the reminder is no longer pending"

\* a store call that does nothing
NoStoreCall(recs) == [recs |-> recs, ret |-> <<>>, flush |-> FALSE, unlock |-> {}]

\* reminder_cancel: the string for what store.cancel has returned
CancelText(res) ==
    IF res.ret = <<>> THEN NotFound
    ELSE IF res.ret[1].status = "canceled" THEN CancelDone
    ELSE NotLive

\* store.cancel, and the string for its result
CancelCalled(res) == [res |-> res, text |-> CancelText(res)]

\* reminder_cancel(args) on the stored list recs: the store call it makes (none
\* after a parameter error) and the string it returns
CancelReply(a, recs, clock) ==
    IF StrArg(a.user_id) = "" \/ TextArg(a.reminder_id) = <<>>
    THEN [res |-> NoStoreCall(recs), text |-> ErrCancelRequired]
    ELSE CancelCalled(Cancel(recs, StrArg(a.user_id), TextArg(a.reminder_id), clock))

\* the arguments of the calls
CancelArgs == [user_id : {None} \cup Users, reminder_id : {NoneSeq} \cup Keys]

\* reminder_cancel(args): the whole handler
ReminderCancel(A) ==
    /\ caller.pc = "idle"
    /\ \E a \in A :
       \E r \in {CancelReply(a, file, now)} :
         /\ Commit(r.res)
         /\ canceledRet' = IF r.text = CancelDone
                           THEN canceledRet \cup {r.res.ret[1].id}
                           ELSE canceledRet
         /\ last' = [op |-> "reminder_cancel", arg |-> a, ret |-> r.text]
    /\ UNCHANGED <<env, issued, mem, sched, caller, crashes, createdRet, fails, more>>

\* two creators, one reminder each at most, due at once
OwnerOpts == {MkOpts(u, <<"private", None>>, NoneSeq, <<"x">>, StartMs) : u \in Users}

\* reminder_cancel among the store calls that make records sending, pending
\* again, and sent
CancelNext ==
    \/ CallCreate(OwnerOpts, TwoIds, FALSE)
    \/ CallClaimDue({1, TickLimit})
    \/ CallTryAcquire(TwoIds)
    \/ CallMarkSent(TwoIds)
    \/ CallMarkFailed(TwoIds, {"boom"})
    \/ ReminderCancel(CancelArgs)

CancelSpec == InitStore /\ [][CancelNext]_vars

\* C21: cancel for a record that is already sent or canceled returns that
\* record and changes nothing: no field, no lock marker, no rewrite of the
\* file; cancel with no record of the caller's matching the key returns
\* nothing and changes nothing. reminder_cancel answers the first with
\* NotLive (with CancelDone when the record is canceled) and the second with
\* NotFound, strings that differ, and answers CancelDone only when the record
\* store.cancel returned is canceled.
C21_CancelFailuresChangeNothing ==
    \A a \in CancelArgs :
        LET r == CancelReply(a, file, now)
            u == StrArg(a.user_id)
            key == TextArg(a.reminder_id)
            own == {i \in DOMAIN file :
                      file[i].creatorUserId = u /\ StartsWith(file[i].id, key)}
            same == r.res.recs = file /\ ~r.res.flush /\ r.res.unlock = {}
        IN  /\ (u # "" /\ key # <<>> /\ own = {})
                  => r.res.ret = <<>> /\ same /\ r.text = NotFound
            /\ (u # "" /\ key # <<>> /\ own # {}
                  /\ \A i \in own : file[i].status \in Terminal)
                  => /\ same
                     /\ \E i \in own : r.res.ret = <<file[i]>>
                     /\ r.text = IF r.res.ret[1].status = "canceled"
                                 THEN CancelDone ELSE NotLive
            /\ r.text = CancelDone
                  => r.res.ret # <<>> /\ r.res.ret[1].status = "canceled"
            /\ r.text = ErrCancelRequired => same /\ r.res.ret = <<>>
            /\ Cardinality({NotFound, NotLive, CancelDone, ErrCancelRequired}) = 4

\* C21 witness: reminder_cancel has just answered NotLive for a record that is
\* sent, another record of another creator being canceled, and the same call
\* by that other creator finds nothing
C21_Witness ==
    /\ last.op = "reminder_cancel"
    /\ last.ret = NotLive
    /\ \E i \in DOMAIN file :
          /\ file[i].status = "sent"
          /\ file[i].id = TextArg(last.arg.reminder_id)
          /\ file[i].creatorUserId = last.arg.user_id
    /\ \E i \in DOMAIN file : file[i].status = "canceled"
    /\ \E u \in Users : CancelReply([last.arg EXCEPT !.user_id = u], file, now).text = NotFound

(* ------------------------------------------------------------------ *)
(* _ensure_runtime (mcp_tools_tools/reminders/tool.py, and the same    *)
(* function of tools/reminders/tool.py) entered by several threads of  *)
(* one process, statement by statement. store, sender and scheduler    *)
(* count the objects constructed (0: the global is None), started the  *)
(* calls of _SCHEDULER.start().                                        *)
(* ------------------------------------------------------------------ *)
\* how often each thread calls _ensure_runtime
MaxCalls == 2

\* the module's globals after import: the lock free, every global None
NotStarted == [Started EXCEPT !.store = 0, !.sender = 0, !.scheduler = 0, !.started = 0]

\* (mutant) the body entered without taking _LOCK
EnterUnlocked(t) ==
    /\ runtime.pc[t] = "out"
    /\ runtime.calls[t] < MaxCalls
    /\ runtime' = [runtime EXCEPT !.pc[t] = "store"]
    /\ UNCHANGED <<env, file, locks, issued, last, mem, sched, caller, crashes,
                   createdRet, canceledRet, fails, delivered, stopping, creators, tmp>>

\* with _LOCK: the thread waits until the lock is free and takes it
Enter(t) ==
    /\ runtime.pc[t] = "out"
    /\ runtime.calls[t] < MaxCalls
    /\ runtime.lock = None
    /\ runtime' = [runtime EXCEPT !.lock = t, !.pc[t] = "store"]
    /\ UNCHANGED <<env, file, locks, issued, last, mem, sched, caller, crashes,
                   createdRet, canceledRet, fails, delivered, stopping, creators, tmp>>

\* if _STORE is None / if _SENDER is None / if _SCHEDULER is None
Check(t) ==
    /\ runtime.pc[t] \in {"store", "sender", "scheduler"}
    /\ runtime' = [runtime EXCEPT !.pc[t] =
          CASE runtime.pc[t] = "store" ->
                   IF runtime.store = 0 THEN "new_store" ELSE "sender"
            [] runtime.pc[t] = "sender" ->
                   IF runtime.sender = 0 THEN "new_sender" ELSE "scheduler"
            [] runtime.pc[t] = "scheduler" ->
                   IF runtime.scheduler = 0 THEN "new_scheduler" ELSE "leave"]
    /\ UNCHANGED <<env, file, locks, issued, last, mem, sched, caller, crashes,
                   createdRet, canceledRet, fails, delivered, stopping, creators, tmp>>

\* _STORE = ReminderStore() / _SENDER = NapCatHttpSender() /
\* _SCHEDULER = ReminderScheduler(_STORE, _SENDER)
Construct(t) ==
    /\ runtime.pc[t] \in {"new_store", "new_sender", "new_scheduler"}
    /\ runtime' =
          CASE runtime.pc[t] = "new_store" ->
                   [runtime EXCEPT !.store = @ + 1, !.pc[t] = "sender"]
            [] runtime.pc[t] = "new_sender" ->
                   [runtime EXCEPT !.sender = @ + 1, !.pc[t] = "scheduler"]
            [] runtime.pc[t] = "new_scheduler" ->
                   [runtime EXCEPT !.scheduler = @ + 1, !.pc[t] = "start"]
    /\ UNCHANGED <<env, file, locks, issued, last, mem, sched, caller, crashes,
                   createdRet, canceledRet, fails, delivered, stopping, creators, tmp>>

\* _SCHEDULER.start()
StartScheduler(t) ==
    /\ runtime.pc[t] = "start"
    /\ runtime' = [runtime EXCEPT !.started = @ + 1, !.pc[t] = "leave"]
    /\ UNCHANGED <<env, file, locks, issued, last, mem, sched, caller, crashes,
                   createdRet, canceledRet, fails, delivered, stopping, creators, tmp>>

\* return _STORE, _SENDER: the with block releases _LOCK
Leave(t) ==
    /\ runtime.pc[t] = "leave"
    /\ runtime' = [runtime EXCEPT !.lock = IF @ = t THEN None ELSE @,
                                  !.pc[t] = "out", !.calls[t] = @ + 1]
    /\ UNCHANGED <<env, file, locks, issued, last, mem, sched, caller, crashes,
                   createdRet, canceledRet, fails, delivered, stopping, creators, tmp>>

EnsureNext ==
    \/ \E t \in Entrants : Enter(t)
    \/ \E t \in Entrants : Check(t)
    \/ \E t \in Entrants : Construct(t)
    \/ \E t \in Entrants : StartScheduler(t)
    \/ \E t \in Entrants : Leave(t)

EnsureSpec == InitWith(StartMs, NotStarted) /\ [][EnsureNext]_vars

\* C22: however the threads that call _ensure_runtime interleave, at most one
\* store, one sender and one scheduler are constructed and the scheduler
\* thread is started at most once, and once any call has returned there is
\* exactly one of each and the one scheduler thread has been started.
C22_OneRuntime ==
    /\ runtime.store <= 1 /\ runtime.sender <= 1
    /\ runtime.scheduler <= 1 /\ runtime.started <= 1
    /\ runtime.started <= runtime.scheduler
    /\ \A t \in Entrants :
          runtime.calls[t] > 0 =>
              /\ runtime.store = 1 /\ runtime.sender = 1
              /\ runtime.scheduler = 1 /\ runtime.started = 1

\* C22 witness: every thread has returned from a call, the runtime is there,
\* and two threads are calling again, one inside and one waiting for the lock
C22_Witness ==
    /\ \A t \in Entrants : runtime.calls[t] > 0
    /\ runtime.started = 1
    /\ \E t \in Entrants : runtime.pc[t] = "scheduler"
    /\ \E t \in Entrants : runtime.pc[t] = "out" /\ runtime.calls[t] < MaxCalls

(* ------------------------------------------------------------------ *)
(* The stop signal: ReminderScheduler.stop() sets the event at any     *)
(* moment, run() looks at it between two ticks.                        *)
(* ------------------------------------------------------------------ *)
\* stop(): self._stop.set(), by any thread, whatever the scheduler is doing
SetStop(p) ==
    /\ p \notin stopping
    /\ sched[p].pc # "stopped"
    /\ stopping' = stopping \cup {p}
    /\ UNCHANGED <<env, file, locks, issued, last, mem, sched, caller, crashes,
                   createdRet, canceledRet, fails, delivered, runtime, creators, tmp>>

\* run(): the event is set when the loop comes to its test: run() returns
SeeStop(p) ==
    /\ sched[p].pc = "idle"
    /\ p \in stopping
    /\ sched' = [sched EXCEPT ![p].pc = "stopped"]
    /\ UNCHANGED <<env, file, locks, issued, last, mem, caller, crashes,
                   createdRet, canceledRet, fails, more>>

\* One scheduler and the tool thread: two reminders, sends that fail, the
\* stop signal given at any point of a tick
StopNext ==
    \/ Advance({StaleMs + TickMs})
    \/ \E p \in Ticking : TickStart(p, TRUE)
    \/ \E p \in Ticking : Acquire(p)
    \/ \E p \in Ticking : SendOk(p, TRUE)
    \/ \E p \in Ticking : SendFail(p, {"boom"}, TRUE)
    \/ \E p \in Ticking : Release(p)
    \/ \E p \in Ticking : SetStop(p)
    \/ \E p \in Ticking : SeeStop(p)
    \/ CallerCreate(CallerOpts, TwoIds, TRUE)
    \/ CallerCancel({"u1"}, TwoIds, TRUE)

\* the scheduler thread keeps running: its calls return, sender.send within
\* its timeout, and after its sleep the loop comes to its test
StopSpec ==
    /\ InitStore
    /\ [][StopNext]_vars
    /\ \A p \in Ticking : WF_vars(Run(p)) /\ WF_vars(SeeStop(p))

\* the record of reminder id in the list recs
HasStatus(recs, id, st) == \E i \in DOMAIN recs : recs[i].id = id /\ recs[i].status = st

\* C23: once the stop event is set it stays set; a tick under way goes on as
\* without it: the reminder in sender.send is marked sent or failed with its
\* lock marker removed, the tick then moves to the next claimed reminder until
\* none is left; from between two ticks no new tick begins, the thread ends
\* only there and only with the event set; and it does end.
C23_StopEndsLoopAfterTick ==
    /\ [][ \A p \in Ticking :
             LET rid == Head(sched[p].due) IN
             /\ p \in stopping => p \in stopping'
             /\ (sched[p].pc = "send" /\ sched'[p] # sched[p])
                   => /\ sched'[p] = [sched[p] EXCEPT !.pc = "release"]
                      /\ locks'[rid] = Absent
                      /\ \/ rid \in delivered' /\ HasStatus(file', rid, "sent")
                         \/ fails'[rid] = fails[rid] + 1
                               /\ HasStatus(file', rid, "pending")
             /\ (sched[p].pc = "release" /\ sched'[p] # sched[p])
                   => locks'[rid] = Absent /\ sched'[p] = NextReminder(sched[p])
             /\ (p \in stopping /\ sched[p].pc = "idle")
                   => sched'[p].pc \in {"idle", "stopped"}
             /\ (sched'[p].pc = "stopped" /\ sched[p].pc # "stopped")
                   => sched[p].pc = "idle" /\ p \in stopping
         ]_vars
    /\ \A p \in Ticking : (p \in stopping) ~> (sched[p].pc = "stopped")

\* C23 witness: the stop event is set while the tick is in sender.send for the
\* first of two reminders it has claimed
C23_Witness ==
    \E p \in Ticking :
        /\ p \in stopping
        /\ sched[p].pc = "send"
        /\ Len(sched[p].due) = 2

(* ------------------------------------------------------------------ *)
(* One process that never dies: its scheduler thread and its tool      *)
(* thread work on the one ReminderStore, every store call being its    *)
(* _refresh with the work on self._reminders, then its _flush.         *)
(* ------------------------------------------------------------------ *)
SoloNext ==
    \/ Advance({StaleMs + TickMs})
    \/ \E p \in Ticking : TickStart(p, FALSE)
    \/ \E p \in Ticking : ClaimFlush(p)
    \/ \E p \in Ticking : Acquire(p)
    \/ \E p \in Ticking : SendOk(p, FALSE)
    \/ \E p \in Ticking : SendFail(p, {"boom"}, FALSE)
    \/ \E p \in Ticking : MarkFlush(p)
    \/ \E p \in Ticking : Release(p)
    \/ CallerCreate(CallerOpts, OneId, FALSE)
    \/ CallerCancel({"u1"}, OneId, FALSE)
    \/ CallerList({"u1"}, {<<"private", None>>}, FALSE)
    \/ CallerFlush

SoloSpec == InitStore /\ [][SoloNext]_vars

\* the step in which sender.send returns to the tick of process p
Delivers(p) ==
    /\ sched[p].pc = "send"
    /\ sched'[p].pc \in {"mark_flush", "release"}
    /\ fails' = fails

\* C24: in one process that does not crash, whatever way the steps of the tick
\* interleave with create, list and cancel calls, sender.send never returns
\* for a reminder id for which it has returned before.
C24_DeliveredOncePerProcess ==
    [][\A p \in Ticking : Delivers(p) => Head(sched[p].due) \notin delivered]_vars

(* ------------------------------------------------------------------ *)
(* store.create called by two threads of process p1 on its one         *)
(* ReminderStore, statement by statement: _refresh binds               *)
(* self._reminders (mem["p1"]) to the list read from the file, the     *)
(* dedup loop runs over the list bound when it starts, the record is   *)
(* appended to the list bound at that moment, and _flush writes the    *)
(* list bound at that moment.                                          *)
(* ------------------------------------------------------------------ *)
\* the create calls under way
Creating == {x \in Threads : creators[x].pc \in {"scan", "append", "flush"}}

\* _refresh by thread t: self._reminders is a new list, so the lists the other
\* threads have loaded (own) are no longer the one the store holds
Rebound(c, t) == [x \in Threads |-> [c[x] EXCEPT !.own = (x = t)]]

\* create: self._refresh(); uuid4() is drawn here, its value depending on
\* nothing the call does
CreateRefresh(t, O, I) ==
    /\ creators[t].pc = "idle"
    /\ Len(file) + Cardinality(Creating) < MaxRecords
    /\ \E opts \in O, id \in I \ issued :
         /\ creators' = [Rebound(creators, t) EXCEPT ![t] =
                           [IdleCreator EXCEPT !.pc = "scan", !.opts = opts, !.id = id,
                                               !.own = TRUE]]
         /\ issued' = issued \cup {id}
    /\ mem' = [mem EXCEPT !["p1"] = file]
    /\ UNCHANGED <<env, file, locks, last, sched, caller, crashes,
                   createdRet, canceledRet, fails, delivered, stopping, runtime, tmp>>

\* create: the dedup loop over self._reminders, returning the record it finds;
\* otherwise rem is built, with the time of that moment
CreateScan(t) ==
    /\ creators[t].pc = "scan"
    /\ LET res == Create(mem["p1"], creators[t].opts, creators[t].id, now) IN
       IF res.flush
       THEN /\ creators' = [creators EXCEPT ![t].pc = "append", ![t].at = now]
            /\ createdRet' = createdRet
       ELSE /\ creators' = [creators EXCEPT ![t] = IdleCreator]
            /\ createdRet' = createdRet \cup {res.ret[1].id}
    /\ UNCHANGED <<env, file, locks, issued, last, mem, sched, caller, crashes,
                   canceledRet, fails, delivered, stopping, runtime, tmp>>

\* create: self._reminders.append(rem)
CreateAppend(t) ==
    /\ creators[t].pc = "append"
    /\ mem' = [mem EXCEPT !["p1"] =
                 Append(@, NewReminder(creators[t].id, creators[t].at, creators[t].opts))]
    /\ creators' = [creators EXCEPT ![t].pc = "flush"]
    /\ UNCHANGED <<env, file, locks, issued, last, sched, caller, crashes,
                   createdRet, canceledRet, fails, delivered, stopping, runtime, tmp>>

\* create: self._flush(), and the call returns rem
CreateFlush(t) ==
    /\ creators[t].pc = "flush"
    /\ file' = mem["p1"]
    /\ createdRet' = createdRet \cup {creators[t].id}
    /\ creators' = [creators EXCEPT ![t] = IdleCreator]
    /\ UNCHANGED <<env, locks, issued, last, mem, sched, caller, crashes,
                   canceledRet, fails, delivered, stopping, runtime, tmp>>

\* two threads creating reminders of one creator, with and without a
\* sourceMessageId, the clock moving between the calls
ThreadsNext ==
    \/ Advance({TickMs})
    \/ \E t \in Threads : CreateRefresh(t, RaceOpts, AllIds)
    \/ \E t \in Threads : CreateScan(t)
    \/ \E t \in Threads : CreateAppend(t)
    \/ \E t \in Threads : CreateFlush(t)

ThreadsSpec == InitStore /\ [][ThreadsNext]_vars

\* two records with the same dedup tuple
SameDedupTuple(r, q) ==
    /\ SeqOrEmpty(r.sourceMessageId) # <<>>
    /\ r.sourceMessageId = q.sourceMessageId
    /\ r.creatorUserId = q.creatorUserId
    /\ r.creatorChatType = q.creatorChatType
    /\ r.dueAtMs = q.dueAtMs
    /\ r.text = q.text
    /\ (r.creatorChatType = "group" => r.creatorGroupId = q.creatorGroupId)

\* C25: in every state, create calls running at once in different threads
\* included, the stored collection holds no two records with the same
\* non-empty sourceMessageId, creatorUserId, creatorChatType, dueAtMs and text
\* (and creatorGroupId for a group chat).
C25_DedupTupleUnique ==
    \A i \in DOMAIN file, j \in DOMAIN file :
        SameDedupTuple(file[i], file[j]) => i = j

(* ------------------------------------------------------------------ *)
(* mark_sent called by the scheduler thread of process p1, statement   *)
(* by statement, while a tool thread of the process is in create. The  *)
(* record r of the loop belongs to the list the thread has loaded; a   *)
(* write to r shows in self._reminders as long as that list is bound.  *)
(* ------------------------------------------------------------------ *)
\* the list with the status of record id set
WithStatus(recs, id, st) ==
    [i \in DOMAIN recs |-> IF recs[i].id = id THEN [recs[i] EXCEPT !.status = st]
                           ELSE recs[i]]

\* the store's list after a write of thread t to the list it has loaded
Written(t, recs) == IF creators[t].own THEN [mem EXCEPT !["p1"] = recs] ELSE mem

\* _tick: sender.send has returned for the first reminder of the file, which
\* the tick has claimed and locked; mark_sent: self._refresh()
MarkSentRefresh(t) ==
    /\ creators[t].pc = "idle"
    /\ file # <<>>
    /\ file[1].status = "sending"
    /\ locks[file[1].id] # Absent
    /\ creators' = [Rebound(creators, t) EXCEPT ![t] =
                      [IdleCreator EXCEPT !.pc = "status", !.id = file[1].id,
                                          !.own = TRUE]]
    /\ mem' = [mem EXCEPT !["p1"] = file]
    /\ UNCHANGED <<env, file, locks, issued, last, sched, caller, crashes,
                   createdRet, canceledRet, fails, delivered, stopping, runtime, tmp>>

\* mark_sent: r["status"] = "sent", and the call of time.time() for sentAtMs
MarkSentStatus(t) ==
    /\ creators[t].pc = "status"
    /\ mem' = Written(t, WithStatus(mem["p1"], creators[t].id, "sent"))
    /\ creators' = [creators EXCEPT ![t].pc = "stamp", ![t].at = now]
    /\ UNCHANGED <<env, file, locks, issued, last, sched, caller, crashes,
                   createdRet, canceledRet, fails, delivered, stopping, runtime, tmp>>

\* mark_sent: sentAtMs is set, the three keys are popped, release_send_lock
MarkSentStamp(t) ==
    /\ creators[t].pc = "stamp"
    /\ mem' = Written(t, MarkSent(mem["p1"], creators[t].id, creators[t].at).recs)
    /\ locks' = ReleaseSendLock(locks, creators[t].id)
    /\ creators' = [creators EXCEPT ![t].pc = "written"]
    /\ UNCHANGED <<env, file, issued, last, sched, caller, crashes,
                   createdRet, canceledRet, fails, delivered, stopping, runtime, tmp>>

\* mark_sent: self._flush(), and back in _tick
MarkSentFlush(t) ==
    /\ creators[t].pc = "written"
    /\ file' = mem["p1"]
    /\ delivered' = delivered \cup {creators[t].id}
    /\ creators' = [creators EXCEPT ![t] = IdleCreator]
    /\ UNCHANGED <<env, locks, issued, last, mem, sched, caller, crashes,
                   createdRet, canceledRet, fails, stopping, runtime, tmp>>

\* no thread of the process is inside a store call
Quiet == \A x \in Threads : creators[x].pc = "idle"

\* _tick: claim_due(now, 10) and try_acquire_send_lock, each run as one step
\* while no other thread is inside a store call
QuietClaim == Quiet /\ CallClaimDue({TickLimit})
QuietAcquire == Quiet /\ CallTryAcquire(AllIds)

\* The tool thread t1 creating and the scheduler thread t2 claiming, locking
\* and marking, the claim and the lock each run without a switch of threads
TornNext ==
    \/ Advance({TickMs})
    \/ CreateRefresh("t1", RaceOpts, AllIds)
    \/ CreateScan("t1")
    \/ CreateAppend("t1")
    \/ CreateFlush("t1")
    \/ QuietClaim
    \/ QuietAcquire
    \/ MarkSentRefresh("t2")
    \/ MarkSentStatus("t2")
    \/ MarkSentStamp("t2")
    \/ MarkSentFlush("t2")

TornSpec == InitStore /\ [][TornNext]_vars

\* C26: in every state of the file a record has claimedAtMs if and only if
\* its status is sending.
C26_ClaimedIffSending ==
    \A i \in DOMAIN file :
        (file[i].claimedAtMs # Absent) <=> (file[i].status = "sending")

\* C27: in every state of the file a record that is sent or canceled has
\* neither lastError nor nextAttemptAtMs, and neither has a record no
\* delivery of which has failed.
C27_RetryFieldsOnlyWhilePending ==
    \A i \in DOMAIN file :
        (file[i].status \in Terminal \/ file[i].attempts = 0)
            => file[i].lastError = None /\ file[i].nextAttemptAtMs = Absent

(* ------------------------------------------------------------------ *)
(* What the store operations leave alone                               *)
(* ------------------------------------------------------------------ *)
\* the fields create sets and nothing is to change
SameFixed(r, q) ==
    /\ r.id = q.id
    /\ r.createdAtMs = q.createdAtMs
    /\ r.dueAtMs = q.dueAtMs
    /\ r.text = q.text
    /\ r.target = q.target
    /\ r.sourceMessageId = q.sourceMessageId
    /\ r.creatorUserId = q.creatorUserId
    /\ r.creatorChatType = q.creatorChatType
    /\ r.creatorGroupId = q.creatorGroupId

\* the call with result res keeps the records of recs in place, with their
\* fixed fields, and keeps whole those whose index is not in S
Framed(recs, res, S) ==
    /\ Len(res.recs) = Len(recs)
    /\ \A i \in DOMAIN recs :
          /\ SameFixed(res.recs[i], recs[i])
          /\ i \notin S => res.recs[i] = recs[i]

\* the records a call selects: those with one of the ids
WithIds(recs, I) == {i \in DOMAIN recs : recs[i].id \in I}
RetIds(res) == {res.ret[k].id : k \in DOMAIN res.ret}
\* claim_due selects the stale claims it reverts and the records it returns
ClaimFramed(recs, nowMs, res) ==
    Framed(recs, res, {i \in DOMAIN recs : StaleClaim(recs[i], nowMs)}
                         \cup WithIds(recs, RetIds(res)))
\* create leaves every existing record as it is; with a dedup hit it appends
\* and writes nothing
CreateFramed(recs, res) ==
    /\ SubSeq(res.recs, 1, Len(recs)) = recs
    /\ (res.ret[1].id \in {recs[i].id : i \in DOMAIN recs})
          => res.recs = recs /\ ~res.flush
\* a cancel that finds nothing to cancel returns no live record
CancelFramed(recs, res) == Framed(recs, res, WithIds(recs, RetIds(res)))

\* C28: whatever the collection and the arguments, claim_due, cancel,
\* mark_sent and mark_failed leave id, createdAtMs, dueAtMs, text, target,
\* sourceMessageId and the creator fields of every record as they are, and
\* leave whole every record they do not select (the stale claims and the
\* returned records for claim_due, the returned record for cancel, the record
\* with the id for mark_sent and mark_failed); create leaves every existing
\* record whole, and with a dedup hit, like list, changes and writes nothing.
C28_FixedFieldsKept ==
    /\ \A lim \in Limits : ClaimFramed(file, now, ClaimDue(file, now, lim))
    /\ \A u \in Users, k \in Keys : CancelFramed(file, Cancel(file, u, k, now))
    /\ \A id \in TwoIds :
          /\ Framed(file, MarkSent(file, id, now), WithIds(file, {id}))
          /\ \A e \in Errors :
                Framed(file, MarkFailed(file, id, e, now), WithIds(file, {id}))
    /\ \A opts \in TimeOpts, id \in TwoIds \ issued :
          CreateFramed(file, Create(file, opts, id, now))
    /\ \A u \in Users, c \in Contexts :
          /\ ListPendingByCreator(file, u, c[1], c[2]).recs = file
          /\ ~ListPendingByCreator(file, u, c[1], c[2]).flush

\* C28 witness: two records of one owner with a common first character, the
\* first claimed and the second waiting for its retry, a create with the
\* tuple of the first being a dedup hit and a cancel by prefix changing one
C28_Witness ==
    /\ Len(file) = 2
    /\ file[1].status = "sending"
    /\ file[2].status = "pending" /\ file[2].attempts = 1
    /\ Cancel(file, "u1", <<"a">>, now).flush
    /\ \E opts \in TimeOpts : ~Create(file, opts, <<"b", "b">>, now).flush

\* the ids of a list, in its order
IdsIn(recs) == [i \in DOMAIN recs |-> recs[i].id]

\* C29: store calls run one after the other; no step removes a record or
\* moves one: the ids of the file stay where they are, and the file grows
\* only by one record at its end, with an id create has drawn in that step.
C29_NeverRemoved ==
    [][ /\ Len(file') >= Len(file)
        /\ SubSeq(IdsIn(file'), 1, Len(file)) = IdsIn(file)
        /\ Len(file') > Len(file)
              => /\ Len(file') = Len(file) + 1
                 /\ issued' = issued \cup {file'[Len(file')].id}
                 /\ issued' # issued ]_vars

\* C29 witness: both records created are in the file in the order of their
\* creation, the first delivered and the second canceled
C29_Witness ==
    /\ Cardinality(issued) = 2
    /\ Len(file) = 2
    /\ file[1].status = "sent"
    /\ file[2].status = "canceled"

\* C30: the file changes only by a _flush, and a _flush replaces the whole
\* file by the list of the process that flushes, whatever another call has
\* written since that list was read: the last full rewrite wins.
C30_LastRewriteWins ==
    [][file' # file =>
         \E p \in Procs : Flushing(sched, caller, p) /\ file' = mem[p]]_vars

\* C30 witness: a create call has returned a record that the file lacks, no
\* process having died, and the file holds the claim of a claim_due: the
\* rewrite of the claim has replaced the file that create wrote
C30_Witness ==
    /\ crashes = 0
    /\ \E id \in createdRet : \A i \in DOMAIN file : file[i].id # id
    /\ \E i \in DOMAIN file : file[i].status = "sending"

(* ------------------------------------------------------------------ *)
(* _flush on the disk: _atomic_write_json opens a temporary file,      *)
(* json.dump writes the document into it piece by piece, and           *)
(* os.replace puts it in the place of reminders.json. The process may  *)
(* die between any two of these steps. file is what _read_json_file    *)
(* returns for reminders.json.                                         *)
(* ------------------------------------------------------------------ *)
\* _read_json_file on a document of which written records of recs are on
\* the disk: json.load raises on a document cut short, and the fallback is []
ReadJson(recs, written) == IF written = Len(recs) THEN recs ELSE <<>>

\* no store call is under way in the process
NoFlush == tmp.state \in {"none", "stray"}

\* a store call that has computed res from the file it read: release_send_lock
\* if any, and _flush is entered if the call writes
Enters(res) ==
    /\ NoFlush
    /\ locks' = ReleaseAll(locks, res.unlock)
    /\ tmp' = IF res.flush
              THEN [state |-> "start", before |-> file, recs |-> res.recs, written |-> 0]
              ELSE tmp
    /\ UNCHANGED <<env, file, last, mem, sched, caller, crashes, createdRet,
                   canceledRet, fails, delivered, stopping, runtime, creators>>

DiskCreate(O, I) ==
    \E opts \in O, id \in I \ issued :
        /\ Len(Create(file, opts, id, now).recs) <= MaxRecords
        /\ Enters(Create(file, opts, id, now))
        /\ issued' = IF Create(file, opts, id, now).flush THEN issued \cup {id}
                     ELSE issued

DiskCancel(U, K) ==
    /\ \E u \in U, k \in K : Enters(Cancel(file, u, k, now))
    /\ UNCHANGED issued

DiskClaimDue(L) ==
    /\ \E lim \in L : Enters(ClaimDue(file, now, lim))
    /\ UNCHANGED issued

DiskMarkSent(I) ==
    /\ \E id \in I : Enters(MarkSent(file, id, now))
    /\ UNCHANGED issued

DiskMarkFailed(I, E) ==
    /\ \A i \in DOMAIN file : file[i].attempts < MaxAttempts
    /\ \E id \in I, e \in E : Enters(MarkFailed(file, id, e, now))
    /\ UNCHANGED issued

\* (mutant) the document opened for writing in its own place
FlushOpenInPlace ==
    /\ tmp.state = "start"
    /\ tmp' = [tmp EXCEPT !.state = "open"]
    /\ file' = ReadJson(tmp.recs, 0)
    /\ UNCHANGED <<env, locks, issued, last, mem, sched, caller, crashes,
                   createdRet, canceledRet, fails, delivered, stopping, runtime,
                   creators>>

\* _atomic_write_json: open(tmp, "w")
FlushOpen ==
    /\ tmp.state = "start"
    /\ tmp' = [tmp EXCEPT !.state = "open"]
    /\ UNCHANGED <<env, file, locks, issued, last, mem, sched, caller, crashes,
                   createdRet, canceledRet, fails, delivered, stopping, runtime,
                   creators>>

\* json.dump: one more record is in the temporary file
FlushDump ==
    /\ tmp.state = "open"
    /\ tmp.written < Len(tmp.recs)
    /\ tmp' = [tmp EXCEPT !.written = @ + 1]
    /\ UNCHANGED <<env, file, locks, issued, last, mem, sched, caller, crashes,
                   createdRet, canceledRet, fails, delivered, stopping, runtime,
                   creators>>

\* the file is closed; os.replace(tmp, file_path), and the call returns
FlushReplace ==
    /\ tmp.state = "open"
    /\ tmp.written = Len(tmp.recs)
    /\ file' = ReadJson(tmp.recs, tmp.written)
    /\ tmp' = NoTmp
    /\ UNCHANGED <<env, locks, issued, last, mem, sched, caller, crashes,
                   createdRet, canceledRet, fails, delivered, stopping, runtime,
                   creators>>

\* the process dies inside _flush and is started again: the temporary file,
\* if it was opened, stays as it is and nothing reads it
Die ==
    /\ ~NoFlush
    /\ crashes < MaxCrashes
    /\ crashes' = crashes + 1
    /\ tmp' = IF tmp.state = "open" THEN [tmp EXCEPT !.state = "stray"] ELSE NoTmp
    /\ UNCHANGED <<env, file, locks, issued, last, mem, sched, caller,
                   createdRet, canceledRet, fails, delivered, stopping, runtime,
                   creators>>

\* One process: its store calls with the steps of _flush, and its death
DiskNext ==
    \/ DiskCreate(CallerOpts, TwoIds)
    \/ DiskCancel({"u1"}, TwoIds)
    \/ DiskClaimDue({TickLimit})
    \/ DiskMarkSent(TwoIds)
    \/ DiskMarkFailed(TwoIds, {"boom"})
    \/ FlushOpen
    \/ FlushDump
    \/ FlushReplace
    \/ Die

DiskSpec == InitStore /\ [][DiskNext]_vars

\* C31: from the moment a store call enters _flush, whatever step comes
\* next, the death of the process included, reminders.json reads as the
\* whole collection of before the call or as the whole collection the call
\* writes, and holds every record it held before the call.
C31_OldOrNewDocument ==
    [][ ~NoFlush =>
          /\ file' \in {tmp.before, tmp.recs}
          /\ \A i \in DOMAIN tmp.before :
                \E j \in DOMAIN file' : file'[j].id = tmp.before[i].id ]_vars

\* C31 witness: the process has died with the second record half written to
\* the temporary file; reminders.json reads as before the call, one record
C31_Witness ==
    /\ crashes = 1
    /\ tmp.state = "stray"
    /\ Len(tmp.recs) = 2
    /\ tmp.written = 1
    /\ file = tmp.before
    /\ Len(file) = 1

(* ------------------------------------------------------------------ *)
(* try_acquire_send_lock step by step, called by two threads for the   *)
(* same markers: the O_EXCL create, the stat, the unlink and the call  *)
(* of itself. now_ms is the time the caller's tick began (at); a       *)
(* marker's mtime is the time of its creation.                         *)
(* ------------------------------------------------------------------ *)
\* the call returns v
Returned(c, v) == [IdleCreator EXCEPT !.id = c.id, !.at = c.at, !.depth = c.depth,
                                      !.ret = v]

\* _tick: try_acquire_send_lock(rid, now)
LockCall(t, I) ==
    /\ creators[t].pc = "idle"
    /\ \E id \in I :
          creators' = [creators EXCEPT ![t] =
                         [IdleCreator EXCEPT !.pc = "excl", !.id = id, !.at = now]]
    /\ UNCHANGED <<env, file, locks, issued, last, mem, sched, caller, crashes,
                   createdRet, canceledRet, fails, delivered, stopping, runtime, tmp>>

\* os.open(p, O_CREAT | O_EXCL | O_WRONLY): the marker is created and the
\* call returns True, or FileExistsError is raised
LockExcl(t) ==
    /\ creators[t].pc = "excl"
    /\ IF locks[creators[t].id] = Absent
       THEN /\ locks' = [locks EXCEPT ![creators[t].id] = now]
            /\ creators' = [creators EXCEPT ![t] = Returned(@, "True")]
       ELSE /\ locks' = locks
            /\ creators' = [creators EXCEPT ![t].pc = "stat"]
    /\ UNCHANGED <<env, file, issued, last, mem, sched, caller, crashes,
                   createdRet, canceledRet, fails, delivered, stopping, runtime, tmp>>

\* (mutant) every marker found is taken for a stale one
LockStatEager(t) ==
    /\ creators[t].pc = "stat"
    /\ creators' = [creators EXCEPT ![t] =
          IF locks[@.id] = Absent THEN Returned(@, "False")
          ELSE [@ EXCEPT !.pc = "unlink"]]
    /\ UNCHANGED <<env, file, locks, issued, last, mem, sched, caller, crashes,
                   createdRet, canceledRet, fails, delivered, stopping, runtime, tmp>>

\* os.stat(p) and the test of its mtime; a marker gone meanwhile makes stat
\* raise, and the call returns False
LockStat(t) ==
    /\ creators[t].pc = "stat"
    /\ creators' = [creators EXCEPT ![t] =
          IF StaleLock(locks, @.id, @.at) THEN [@ EXCEPT !.pc = "unlink"]
          ELSE Returned(@, "False")]
    /\ UNCHANGED <<env, file, locks, issued, last, mem, sched, caller, crashes,
                   createdRet, canceledRet, fails, delivered, stopping, runtime, tmp>>

\* os.unlink(p), and the function calls itself; a marker gone meanwhile makes
\* unlink raise, and the call returns False
LockUnlink(t) ==
    /\ creators[t].pc = "unlink"
    /\ IF locks[creators[t].id] = Absent
       THEN /\ locks' = locks
            /\ creators' = [creators EXCEPT ![t] = Returned(@, "False")]
       ELSE /\ locks' = [locks EXCEPT ![creators[t].id] = Absent]
            /\ creators' = [creators EXCEPT ![t].pc = "excl", ![t].depth = @ + 1]
    /\ UNCHANGED <<env, file, issued, last, mem, sched, caller, crashes,
                   createdRet, canceledRet, fails, delivered, stopping, runtime, tmp>>

\* release_send_lock(rid) by a thread that is not inside a call
LockRelease(t, I) ==
    /\ creators[t].pc = "idle"
    /\ \E id \in I :
          /\ locks' = ReleaseSendLock(locks, id)
          /\ creators' = [creators EXCEPT ![t] = [IdleCreator EXCEPT !.id = id]]
    /\ UNCHANGED <<env, file, issued, last, mem, sched, caller, crashes,
                   createdRet, canceledRet, fails, delivered, stopping, runtime, tmp>>

LockNext ==
    \/ Advance(Deltas)
    \/ \E t \in Threads : LockCall(t, TwoIds)
    \/ \E t \in Threads : LockExcl(t)
    \/ \E t \in Threads : LockStat(t)
    \/ \E t \in Threads : LockUnlink(t)
    \/ \E t \in Threads : LockRelease(t, TwoIds)

LockSpec == InitStore /\ [][LockNext]_vars

\* the step is one of thread t inside try_acquire_send_lock
LockStep(t) == creators[t].pc \in {"excl", "stat", "unlink"} /\ creators'[t] # creators[t]

\* C32: in try_acquire_send_lock, with no marker the create makes one and
\* the call returns True; with a marker no older than 2 minutes the call
\* returns False and the markers are as they were; with an older one the
\* marker is deleted and the acquisition is made again, at most once in a
\* call; and release_send_lock with no marker changes nothing.
C32_LockAcquireRelease ==
    /\ [][ \A t \in Threads : LockStep(t) =>
             LET c == creators[t]  d == creators'[t] IN
             /\ (c.pc = "excl" /\ locks[c.id] = Absent)
                   => locks'[c.id] # Absent /\ d.pc = "idle" /\ d.ret = "True"
             /\ (c.pc = "excl" /\ locks[c.id] # Absent)
                   => locks' = locks /\ d.pc = "stat"
             /\ (c.pc = "stat" /\ locks[c.id] # Absent /\ c.at - locks[c.id] <= StaleMs)
                   => locks' = locks /\ d.pc = "idle" /\ d.ret = "False"
             /\ (c.pc = "stat" /\ locks[c.id] # Absent /\ c.at - locks[c.id] > StaleMs)
                   => locks' = locks /\ d.pc = "unlink"
             /\ (c.pc = "unlink" /\ locks[c.id] # Absent)
                   => locks'[c.id] = Absent /\ d.pc = "excl" /\ d.depth = 1
             /\ d.ret = "True" => locks'[c.id] = now
         ]_vars
    /\ [](\A t \in Threads : creators[t].depth <= 1)
    /\ [](\A id \in TwoIds : locks[id] = Absent => ReleaseSendLock(locks, id) = locks)

\* C32 witness: a call has deleted a marker older than 2 minutes, made the
\* acquisition again and returned True, while the other thread's call for
\* the same marker is at its own unlink
C32_Witness ==
    /\ creators["t1"].pc = "idle" /\ creators["t1"].ret = "True"
    /\ creators["t1"].depth = 1
    /\ creators["t2"].pc = "unlink" /\ creators["t2"].id = creators["t1"].id

\* cancel by userId with key keeps whole every record of another creator and
\* unlinks no marker of one
OthersKept(recs, userId, res) ==
    /\ \A i \in DOMAIN recs :
          recs[i].creatorUserId # userId
             => res.recs[i] = recs[i] /\ recs[i].id \notin res.unlock
    /\ \A k \in DOMAIN res.ret : res.ret[k].creatorUserId = userId

\* C33: whatever the collection, for every user, every key (a full id, a
\* prefix, padded) and every chat context: cancel leaves the records of
\* other creators and their lock markers as they are and returns no record
\* of another creator, and the listing holds only records of the user.
C33_UsersIsolated ==
    /\ \A u \in Users, k \in Keys : OthersKept(file, u, Cancel(file, u, k, now))
    /\ \A u \in Users, c \in ListContexts :
          \A k \in DOMAIN ListPendingByCreator(file, u, c[1], c[2]).ret :
              ListPendingByCreator(file, u, c[1], c[2]).ret[k].creatorUserId = u

\* C33 witness: the first record is live and of u2, the second is live and of
\* u1, their ids begin alike, and u1 cancels by that beginning
C33_Witness ==
    /\ Len(file) = 2
    /\ file[1].creatorUserId = "u2" /\ file[1].status \in Live
    /\ file[2].creatorUserId = "u1" /\ file[2].status \in Live
    /\ file[1].id[1] = file[2].id[1]
    /\ Cancel(file, "u1", <<file[1].id[1]>>, now).flush
    /\ ListPendingByCreator(file, "u1", "private", None).ret # <<>>

(* ------------------------------------------------------------------ *)
(* The parser on requests of every token form, with mentions, dates,   *)
(* duration phrases and numerals.                                      *)
(* ------------------------------------------------------------------ *)
\* a clock-time token: HH, HH:MM, HH dian, HH dian ban, HH dian MM
TokenForms == {"hh", "colon", "dian", "ban", "dianmm"}
Tok(form, h, m) == [form |-> form, h |-> h, m |-> m]
TokenText(k) ==
    CASE k.form = "hh" -> DigitsOf(k.h)
      [] k.form = "colon" -> DigitsOf(k.h) \o <<":">> \o TwoDigits(k.m)
      [] k.form = "dian" -> DigitsOf(k.h) \o <<"dian">>
      [] k.form = "ban" -> DigitsOf(k.h) \o <<"dian", "ban">>
      [] k.form = "dianmm" -> DigitsOf(k.h) \o <<"dian">> \o DigitsOf(k.m)
\* the hour and minute a token stands for, clamped to 0..23 and 0..59
TokenHm(k) ==
    << IF k.h > MaxHour THEN MaxHour ELSE k.h,
       CASE k.form \in {"hh", "dian"} -> 0
         [] k.form = "ban" -> 30
         [] OTHER -> IF k.m > MaxMinute THEN MaxMinute ELSE k.m >>

\* "@12"
Mention == <<"@", "1", "2">>
\* messages: plain, after a mention, around one, and a mention of a half hour
Msgs == {Water, Mention \o <<" ">> \o Water, <<"heshui">> \o Mention \o <<"shui">>,
         <<"@", "ban", "xiao", "shi", " ">> \o Water}

\* "<hint>A,B ti xing wo  <msg>": two clock-time tokens in one request
FanReq(hint, a, b, msg) ==
    hint \o TokenText(a) \o <<",">> \o TokenText(b) \o RemindMe \o msg
\* "<hint>A ti xing wo  <msg>": one clock-time token
TokenReq(hint, a, msg) == hint \o TokenText(a) \o RemindMe \o msg
\* "YYYY-MM-DD HH:MM ti xing wo  <msg>"
DateReq(y, mo, d, h, mi, msg) ==
    DigitsOf(y) \o <<"-">> \o TwoDigits(mo) \o <<"-">> \o TwoDigits(d) \o <<" ">>
      \o TwoDigits(h) \o <<":">> \o TwoDigits(mi) \o RemindMe \o msg

\* the standard Chinese numeral of n, 0 <= n <= 99
CnChar(d) ==
    CASE d = 0 -> "n0" [] d = 1 -> "n1" [] d = 2 -> "n2" [] d = 3 -> "n3"
      [] d = 4 -> "n4" [] d = 5 -> "n5" [] d = 6 -> "n6" [] d = 7 -> "n7"
      [] d = 8 -> "n8" [] d = 9 -> "n9"
CnNumeral(n) ==
    IF n < 10 THEN <<CnChar(n)>>
    ELSE (IF n \div 10 = 1 THEN <<>> ELSE <<CnChar(n \div 10)>>) \o <<"n10">>
           \o (IF n % 10 = 0 THEN <<>> ELSE <<CnChar(n % 10)>>)

\* the duration phrases: "ban xiao shi", "<N> ge ban xiao shi", "<N> xiao shi ban"
HalfForms == {"ban", "geban", "shiban"}
HalfText(form, numeral) ==
    CASE form = "ban" -> <<"ban", "xiao", "shi">>
      [] form = "geban" -> numeral \o <<"ge", "ban", "xiao", "shi">>
      [] form = "shiban" -> numeral \o <<"xiao", "shi", "ban">>
\* "<phrase> hou ti xing wo  <msg>"
HalfReq(form, numeral, msg) == HalfText(form, numeral) \o <<"hou">> \o RemindMe \o msg

\* the numbers the numerals are written for
Numerals == 0..99
FanTokens == {Tok("dian", 8, 0), Tok("colon", 8, 0), Tok("ban", 8, 0),
              Tok("dianmm", 9, 5), Tok("colon", 23, 75), Tok("hh", 22, 0)}
OneTokens == {Tok(f, h, m) : f \in TokenForms, h \in {8, 25}, m \in {5, 75}}
OneHints == {NoHint, <<"ming", "tian">>}
Dates == {<<1970, 1, 3>>, <<1970, 1, 4>>, <<1970, 1, 5>>, <<1970, 2, 30>>,
          <<1970, 13, 40>>}
HalfNs == {1, 2, 10, 23}
\* numerals outside the standard ones: repeated and late tens, a zero before
\* a ten, an unknown character, digits of both kinds
OddNumerals == {<<"n10", "n10">>, <<"n2", "n3", "n10">>, <<"n0", "n10">>,
                <<"n2b", "n10", "n00">>, <<"n2", "x">>, <<"x">>, <<"n1", "bai">>,
                <<"2", "n10">>, <<"n10", "5">>}

\* one call of _parse_cn_number(text), logged with its value in a tuple
ParseNumber(text) ==
    /\ last = NoCall
    /\ last' = [op |-> "number", arg |-> text, ret |-> <<ParseCnNumber(text)>>]
    /\ UNCHANGED <<env, file, locks, issued, procs>>

ParseFan == \E x \in MultiHints, a \in FanTokens, b \in FanTokens, msg \in Msgs :
               Parse(FanReq(x, a, b, msg))
ParseToken == \E x \in OneHints, a \in OneTokens, msg \in Msgs : Parse(TokenReq(x, a, msg))
ParseDate == \E d \in Dates, t \in ClockTimes, msg \in Msgs :
                Parse(DateReq(d[1], d[2], d[3], t[1], t[2], msg))
ParseHalf == \E f \in HalfForms, n \in HalfNs, msg \in Msgs :
                \/ Parse(HalfReq(f, DigitsOf(n), msg))
                \/ Parse(HalfReq(f, CnNumeral(n), msg))
ParseNumeral == \E n \in Numerals : ParseNumber(DigitsOf(n)) \/ ParseNumber(CnNumeral(n))
ParseOdd == \E s \in OddNumerals : ParseNumber(s)

PhraseNext ==
    \/ ParseFan \/ ParseToken \/ ParseDate \/ ParseHalf \/ ParseDelay
    \/ ParseNumeral \/ ParseOdd
PhraseSpec == ParseInit /\ [][PhraseNext]_vars

\* an instant lies after now
Future(d) == ~NotAfter(d, NowI)
\* "@" with a digit after it
HasMention(msg) ==
    \E i \in DOMAIN msg : msg[i] = "@" /\ i < Len(msg) /\ IsDigit(msg[i + 1])
\* the instant a token of a request with the hint x stands for
DaysOf(x) == IF x = <<"ming", "tian">> THEN 1 ELSE IF x = <<"hou", "tian">> THEN 2 ELSE 0
TokenAt(x, k) ==
    IF x = NoHint /\ NotAfter(SameDay(TokenHm(k)[1], TokenHm(k)[2], 0), NowI)
    THEN SameDay(TokenHm(k)[1], TokenHm(k)[2], 1)
    ELSE SameDay(TokenHm(k)[1], TokenHm(k)[2], DaysOf(x))

\* what the multi-time stage returns is a fan-out: two entries at least,
\* strictly ascending, after now, with one message
FanOut(r) ==
    /\ Len(r) >= 2
    /\ \A i \in DOMAIN r, j \in DOMAIN r :
          i < j => r[i][1] # r[j][1] /\ ~NotAfter(r[j][1], r[i][1])
    /\ \A i \in DOMAIN r : Future(r[i][1]) /\ r[i][2] = r[1][2]

\* C34: whatever the request, a result of the multi-time stage is a fan-out
\* and is the result of the parse; when the stage returns nothing the result
\* is that of the later stages. For a request of two tokens the instants are
\* those of the tokens that lie after now, and the stage returns nothing when
\* fewer than two distinct ones remain.
C34_FanOutTwoOrNothing ==
    /\ last.op = "parse" =>
          /\ ParseMultiAbsoluteReminder(last.arg, now) # <<>> =>
                /\ FanOut(ParseMultiAbsoluteReminder(last.arg, now))
                /\ last.ret = ParseMultiAbsoluteReminder(last.arg, now)
          /\ ParseMultiAbsoluteReminder(last.arg, now) = <<>> =>
                last.ret = ListOf(Truthy(ParseDelayReminder(last.arg, now),
                                         ParseAbsoluteReminder(last.arg, now)))
    /\ \A x \in MultiHints, a \in FanTokens, b \in FanTokens, msg \in Msgs :
          (last.op = "parse" /\ last.arg = FanReq(x, a, b, msg)) =>
             LET want == {d \in {TokenAt(x, a), TokenAt(x, b)} : Future(d)}
                 r == ParseMultiAbsoluteReminder(last.arg, now)
             IN  IF Cardinality(want) < 2 THEN r = <<>>
                 ELSE {r[i][1] : i \in DOMAIN r} = want

\* C34 witness: at 08:30, "8 dian ban, 9 dian 5" with a mention gives 09:05
\* and 08:30 of the next day in that order; the same time written twice gives
\* nothing at any stage, and a single token is left to the clock-time stage
C34_Witness ==
    /\ now = ClockMs(8, 30, 0, 0)
    /\ last.op = "parse"
    /\ last.arg = FanReq(NoHint, Tok("ban", 8, 0), Tok("dianmm", 9, 5),
                         Mention \o <<" ">> \o Water)
    /\ last.ret = << <<SameDay(9, 5, 0), Water>>, <<SameDay(8, 30, 1), Water>> >>
    /\ ParseReminderRequests(FanReq(NoHint, Tok("dian", 8, 0), Tok("colon", 8, 0), Water),
                             now) = <<>>
    /\ ParseMultiAbsoluteReminder(TokenReq(NoHint, Tok("colon", 8, 5), Water), now) = <<>>
    /\ Len(ParseReminderRequests(TokenReq(NoHint, Tok("colon", 8, 5), Water), now)) = 1

\* a (due, message) pair of a result: due after now, the message not empty
\* and without a mention
GoodPair(pr) == Future(pr[1]) /\ pr[2] # <<>> /\ ~HasMention(pr[2])

\* C35: every pair parse returns is due after now and has a non-empty message
\* without mentions; the delay, date and clock-time stages return nothing or
\* one such pair, so a result that is not a fan-out has exactly one entry.
C35_PairsFutureAndClean ==
    last.op = "parse" =>
       /\ \A i \in DOMAIN last.ret : GoodPair(last.ret[i])
       /\ ParseDelayReminder(last.arg, now) # <<>> =>
             GoodPair(ParseDelayReminder(last.arg, now))
       /\ ParseAbsoluteReminder(last.arg, now) # <<>> =>
             GoodPair(ParseAbsoluteReminder(last.arg, now))
       /\ ParseMultiAbsoluteReminder(last.arg, now) = <<>> =>
             /\ Len(last.ret) <= 1
             /\ (ParseDelayReminder(last.arg, now) # <<>>
                   \/ ParseAbsoluteReminder(last.arg, now) # <<>>) => Len(last.ret) = 1

\* C35 witness: a date of the next day with a mention inside the message gives
\* one pair without it; the same date a day earlier, which has passed, and a
\* message that is only a mention of digits after a delay give nothing or a
\* clean pair
C35_Witness ==
    /\ last.op = "parse"
    /\ last.arg = DateReq(1970, 1, 5, 8, 0, <<"heshui">> \o Mention \o <<"shui">>)
    /\ last.ret = << <<SameDay(8, 0, 1), <<"heshui", " ", "shui">> >> >>
    /\ ParseReminderRequests(DateReq(1970, 1, 3, 8, 0, Water), now) = <<>>
    /\ Len(ParseReminderRequests(DelayReq(Absent, Absent, 5), now)) = 1

\* C36: "ban xiao shi hou ti xing wo X" is due 30 minutes after now, and for
\* the numeral N, Arabic or Chinese, "<N> ge ban xiao shi hou ..." and
\* "<N> xiao shi ban hou ..." are due N*60+30 minutes after now, each with the
\* one pair (due, X).
C36_HalfHourPhrases ==
    \A f \in HalfForms, n \in HalfNs, msg \in {Water} :
        (last.op = "parse"
           /\ last.arg \in {HalfReq(f, DigitsOf(n), msg), HalfReq(f, CnNumeral(n), msg)})
        => last.ret = << << <<NowI[1] + (IF f = "ban" THEN 30 ELSE n * 60 + 30), NowI[2]>>,
                            msg >> >>

\* C37: a request of an optional hint, one clock-time token of any of the
\* five forms, a trigger and a message gives, at the clock-time stage and as
\* the result of the parse, one pair at the token's hour and minute (clamped)
\* on the day of the hint, or the next day when there is no hint and the time
\* has passed.
C37_ClockTokenForms ==
    \A x \in OneHints, a \in OneTokens :
        (last.op = "parse" /\ last.arg = TokenReq(x, a, Water)) =>
            /\ ParseAbsoluteReminder(last.arg, now) = <<TokenAt(x, a), Water>>
            /\ last.ret = << <<TokenAt(x, a), Water>> >>

\* the sum of the digits of s between the positions lo and hi
RECURSIVE DigitSum(_, _, _)
DigitSum(s, lo, hi) ==
    IF lo > hi THEN 0 ELSE CnDigit[s[lo]] + DigitSum(s, lo + 1, hi)
\* the value of a numeral of Chinese characters: every ten counts ten times
\* the digits since the ten before it (1 if they add up to nothing), and the
\* digits after the last ten count as they are
TensValue(s) ==
    LET T == {k \in DOMAIN s : s[k] = "n10"}
        Prev(k) == IF {j \in T : j < k} = {} THEN 0 ELSE CHOOSE j \in T : j < k /\ \A i \in T : i < k => i <= j
        Seg(k) == DigitSum(s, Prev(k) + 1, k - 1)
        tens == [k \in T |-> IF Seg(k) = 0 THEN 10 ELSE 10 * Seg(k)]
        RECURSIVE Total(_)
        Total(S) == IF S = {} THEN 0
                    ELSE tens[Min(S)] + Total(S \ {Min(S)})
    IN  Total(T) + DigitSum(s, Prev(Len(s) + 1) + 1, Len(s))

\* C38: _parse_cn_number returns n for n in 0..99 written in Arabic digits or
\* as the standard Chinese numeral; a numeral of Chinese characters has the
\* value its tens and digits add up to; a numeral that is not all Arabic
\* digits and holds a character that is no Chinese numeral has no value.
C38_NumeralValue ==
    last.op = "number" =>
       /\ \A n \in Numerals :
             last.arg \in {DigitsOf(n), CnNumeral(n)} => last.ret = <<n>>
       /\ (\A k \in DOMAIN last.arg : IsCnNumeral(last.arg[k]))
             => last.ret = <<TensValue(last.arg)>>
       /\ (\E k \in DOMAIN last.arg : ~IsDigit(last.arg[k]) /\ ~IsCnNumeral(last.arg[k]))
             => last.ret = <<Absent>>
       /\ ((\E k \in DOMAIN last.arg : IsDigit(last.arg[k]))
             /\ (\E k \in DOMAIN last.arg : ~IsDigit(last.arg[k]))) => last.ret = <<Absent>>

\* C38 witness: the numeral of 23 is parsed to 23, and 10, 15, 20 and 99, a
\* ten after two digits and a numeral with an unknown character come out as
\* said
C38_Witness ==
    /\ last.op = "number"
    /\ last.arg = <<"n2", "n10", "n3">>
    /\ last.ret = <<23>>
    /\ ParseCnNumber(<<"n10">>) = 10
    /\ ParseCnNumber(<<"n10", "n5">>) = 15
    /\ ParseCnNumber(<<"n2", "n10">>) = 20
    /\ ParseCnNumber(<<"9", "9">>) = 99
    /\ ParseCnNumber(<<"n2", "n3", "n10">>) = 50
    /\ ParseCnNumber(<<"n2", "x">>) = Absent

(* ------------------------------------------------------------------ *)
(* The tool reminder_list (mcp_tools_tools/reminders/tool.py), each    *)
(* call run to completion. What it returns is written in ASCII:        *)
(*   NothingPending  "zan wu dai tixing shixiang"                      *)
(*   Pending         "dai tixing:" and one numbered line per entry     *)
(* ------------------------------------------------------------------ *)
\* int(args.get("limit") or 10); max(1, min(20, limit))
ListDefault == 10
ListMax == 20
NothingPending == "nothing pending"
Pending == "pending:"

\* the limit argument: <<>> when the call has none, else <<n>>
\* reminder_list: int(args.get("limit") or 10), a limit of 0 being falsy
LimitArg(x) == IF x = <<>> THEN ListDefault ELSE IF x[1] = 0 THEN ListDefault ELSE x[1]
\* reminder_list: limit = max(1, min(20, limit))
ListLimit(a) == ClampInt(LimitArg(a.limit), 1, ListMax)

\* _fmt_time(ms): the local time to the second
FmtTime(ms) == ms \div 1000

\* the numbered line of the i-th entry: time, stripped text, id
ListLine(i, r) == [n |-> i, time |-> FmtTime(r.dueAtMs), text |-> Strip(r.text), id |-> r.id]

\* the lines of lst[:limit]
ListLines(lst, limit) ==
    [i \in 1..(IF Len(lst) < limit THEN Len(lst) ELSE limit) |-> ListLine(i, lst[i])]

\* reminder_list(args) on the stored list recs: the string it returns
ListReply(a, recs) ==
    IF StrArg(a.chat_type) = "" \/ StrArg(a.user_id) = ""
    THEN [text |-> ErrRequired, lines |-> <<>>]
    ELSE LET lst == ListPendingByCreator(recs, StrArg(a.user_id),
                       IF a.chat_type = "group" THEN "group" ELSE "private",
                       a.group_id).ret
         IN  IF lst = <<>> THEN [text |-> NothingPending, lines |-> <<>>]
             ELSE [text |-> Pending, lines |-> ListLines(lst, ListLimit(a))]

\* the arguments of the calls: no limit, limits below, inside and above 1..20
ListLimits == {<<>>, <<0 - 2>>, <<0>>, <<1>>, <<2>>, <<ListMax>>, <<ListMax + 1>>}
ListArgs == [chat_type : {None, "private", "group"}, user_id : {None} \cup Users,
             group_id : {None}, limit : ListLimits]

\* reminder_list(args): the whole handler; the store call only reads. The
\* call is logged with the list it has read
ReminderList(A) ==
    /\ caller.pc = "idle"
    /\ \E a \in A :
         last' = [op |-> "reminder_list", arg |-> a, ret |-> ListReply(a, file),
                  on |-> file]
    /\ UNCHANGED <<env, file, locks, issued, procs>>

\* one creator's reminders at two due times in either order, claimed, failed
\* and canceled, and the lists asked for
ListNext ==
    \/ CallCreate(TimeOpts, TwoIds, FALSE)
    \/ CallClaimDue({1})
    \/ CallMarkFailed(TwoIds, {"boom"})
    \/ CallCancel({"u1"}, TwoIds)
    \/ ReminderList(ListArgs)
ListSpec == InitStore /\ [][ListNext]_vars

\* the records reminder_list's store call matches for the arguments a of
\* the logged call
Matching(a) ==
    ListPendingByCreator(last.on, StrArg(a.user_id),
                         IF a.chat_type = "group" THEN "group" ELSE "private",
                         a.group_id).ret

\* C39: a reminder_list call with chat_type, user_id and a limit, over n
\* matching reminders: with n = 0 it answers NothingPending; else it shows
\* exactly min(n, max(1, min(20, limit))) entries, numbered from 1, those of
\* the earliest due times in ascending order.
C39_ListLimitClamped ==
    (/\ last.op = "reminder_list"
     /\ last.arg.chat_type # None /\ last.arg.user_id # None
     /\ last.arg.limit # <<>>) =>
        LET n == Len(Matching(last.arg))
            lim == ClampInt(last.arg.limit[1], 1, ListMax)
            shown == last.ret.lines
        IN  IF n = 0 THEN last.ret.text = NothingPending /\ shown = <<>>
            ELSE /\ last.ret.text = Pending
                 /\ Len(shown) = (IF n < lim THEN n ELSE lim)
                 /\ \A i \in DOMAIN shown :
                       shown[i].n = i /\ shown[i].id = Matching(last.arg)[i].id
                 /\ \A i \in DOMAIN shown, j \in DOMAIN shown :
                       i < j => shown[i].time <= shown[j].time

====
